---- MODULE Spec2Model ----
(***************************************************************************)
(* Verification model of the trend pipeline of news-app:                   *)
(*   - scripts/feed_crawler.py : RateLimiter, BaseCrawler.safe_request,    *)
(*                               CrawlOrchestrator.crawl_all               *)
(*   - scripts/trend_engine.py : TimeSeriesStore, TrendEngine.process      *)
(*   - scripts/discover_trends.py : discover_trends, load_news_as_raw,     *)
(*                               merge_trends_to_news                      *)
(*                                                                         *)
(* Six specifications share the module:                                    *)
(*   SpecCrawl : crawlers calling safe_request one after the other         *)
(*   SpecConc  : crawlers calling safe_request concurrently                *)
(*   SpecStore : a TimeSeriesStore driven by record/cleanup/save/load      *)
(*   SpecCycle : discover_trends cycles (orchestrator + engine + files)    *)
(*   SpecEngine: the functions of the engine applied to drawn inputs       *)
(*   SpecOrch  : CrawlOrchestrator.crawl_all through the platform crawlers *)
(***************************************************************************)
EXTENDS Integers, Sequences, FiniteSets, TLC

(***************************************************************************)
(* Part 1.  RateLimiter and BaseCrawler.safe_request                       *)
(*                                                                         *)
(* The limiter is the module global `rate_limiter`; every crawler shares   *)
(* it.  Crawlers are modelled as processes that may interleave at the      *)
(* suspension points of safe_request (the limiter's sleep, the network     *)
(* round trip, the back-off sleeps); CrawlOrchestrator runs them one after *)
(* the other, which is the sub-case where at most one crawler is outside   *)
(* "idle".                                                                 *)
(*                                                                         *)
(* Time is counted in ticks of half a second and every stored time is kept *)
(* relative to the present instant: the value of time.time() is `now` = 0, *)
(* a time in the past is negative, the end of a sleep is positive, and     *)
(* when d ticks elapse every stored time is shifted by -d.  Times older    *)
(* than the longest interval the limiter can ask for are all kept as       *)
(* -Horizon, since the code cannot tell them apart.                        *)
(***************************************************************************)

Crawlers == {"c1", "c2"}
Hosts == {"h1", "h2"}

\* bound of the exploration: HTTP requests sent in one run
MaxReq == 3

\* RateLimiter(default_interval=2.5, jitter=2.0), in half-second ticks
default_interval == 5
jitter == 4
\* the cap of penalize: min(current * factor, 5.0)
max_penalty == 5
\* safe_request(max_retries=3)
max_retries == 3
\* min(int(retry_after), 30), in seconds
retry_after_cap == 30

\* what one HTTP round trip can produce; "err" is a transport exception or a
\* status on which raise_for_status() raises; "403ra" is a 403 that carries
\* a Retry-After header
Outcomes == {"200", "401", "403", "403ra", "429", "412", "err"}

\* Retry-After header values, in seconds (a negative one makes time.sleep raise)
RetryAfterValues == {0, 45, -1}

\* the two ends of a random.uniform(a, b) draw
Draws == {0, 1}

One == <<1, 1>>

\* time.time()
now == 0

\* the longest interval wait() can ask for
Horizon == default_interval * max_penalty + jitter

VARIABLES
  last_request,   \* RateLimiter._last_request
  penalties,      \* RateLimiter._penalties, a dyadic fraction <<num, den>>
  blocked,        \* RateLimiter._blocked: host -> reason, "none" if absent
  fail_count,     \* RateLimiter._fail_count
  n403,           \* history: per host, the 403 responses without Retry-After
                  \* received since the host's last successful response
  pc,             \* per crawler: position inside safe_request
  domain,         \* per crawler: host of the call in progress / last call
  attempt,        \* per crawler: loop variable of safe_request
  wake,           \* per crawler: end of the sleep in progress
  request_count,  \* BaseCrawler._request_count
  ret,            \* per crawler: result of the last finished call
  call,           \* per crawler: observations about the call in progress
  lastOk,         \* history: per host, the latest successful request
  okPair          \* history: per host, the latest two successful requests

crawlVars == <<last_request, penalties, blocked, fail_count, n403, pc, domain,
               attempt, wake, request_count, ret, call, lastOk, okPair>>

VARIABLES
  data,           \* TimeSeriesStore.data: the entries, in insertion order
  file,           \* keyword_history.json
  clock,          \* datetime.now(timezone.utc), in hours
  spc,            \* the store object: "idle", "writing" (inside save), or "raised"
                  \* (its constructor raised and there is no object)
  nrec,           \* number of record calls made so far
  hist,           \* history: per keyword, every window recorded since its
                  \* entry was created
  saved,          \* history: the store as of the last completed save
  loaded          \* history: data is what _load read and nothing has changed it

storeVars == <<data, file, clock, spc, nrec, hist, saved, loaded>>

VARIABLES
  dpc,            \* position inside discover_trends
  oi,             \* crawl_all: index of the platform the loop is at
  all_items,      \* crawl_all: all_items
  invoked,        \* history: platforms whose crawler was called this cycle
  raisedIn,       \* history: platforms whose crawler raised this cycle
  skipped,        \* history: platforms skipped as blocked this cycle
  got,            \* history: items the crawlers returned this cycle
  raw_items,      \* discover_trends: raw_items, as crawl_all returned it
  trendsFile,     \* trends.json
  newsFile,       \* news.json: its regular items
  result,         \* the trends the latest finished cycle returned
  cycles,         \* number of cycles started so far
  hash_seed,      \* the hash seed of the process, "unset" until list(set) is used
  lastKind,       \* history: whether the latest cycle had raw items ("full") or
                  \* none ("empty"), or ended by the exception of a write
                  \* ("raised_history", "raised_trends")
  doneAt,         \* history: the clock when the latest cycle ended
  before          \* history: the files and the store when the cycle started

cycVars == <<dpc, oi, all_items, invoked, raisedIn, skipped, got, raw_items, trendsFile, newsFile, result, cycles, hash_seed, lastKind, doneAt, before>>

VARIABLES
  target,         \* which function of the engine the inputs were drawn for
  counts,         \* the count series handed to the detectors
  detect,         \* what z_score_detect returned for it
  direction,      \* what determine_direction returned for it
  collected,      \* crawl_all: the all_items handed to the de-duplication
  unique_items,   \* crawl_all: unique_items
  keyword_data,   \* process: per keyword, what _extract_all_keywords gathered and
                  \* what the history file holds for it
  trends_json,    \* per hash seed: trends.json as a run under that seed writes it
  keyword_count,  \* select_keywords: count
  selected,       \* select_keywords: the list it returned
  news_json,      \* the items of news.json, regular and discovered-trend ones
  supplement      \* what load_news_as_raw returned to the latest run

engVars == <<target, counts, detect, direction, collected, unique_items,
             keyword_data, trends_json, keyword_count, selected, news_json,
             supplement>>

VARIABLES
  opc,            \* position inside CrawlOrchestrator.crawl_all, called on its own
  requested,      \* crawl_all: the platforms argument
  nkw,            \* crawl_all: len(keywords), as select_keywords returned them
  visited,        \* history: the platforms the loop has passed, in that order
  runs,           \* number of crawl_all calls so far
  cpc,            \* position inside the platform crawler's crawl_all
  kwi,            \* platform crawler: index of the loop over the keywords
  c_items,        \* platform crawler: all_items
  words,          \* DouyinCrawler.crawl_all: len(all_discovered_words)
  expand_left,    \* DouyinCrawler.crawl_all: expand_words still to be crawled
  http            \* history: per host, the HTTP requests sent in this crawl_all

orchVars == <<opc, requested, nkw, visited, runs, cpc, kwi, c_items, words,
              expand_left, http>>

Min(a, b) == IF a < b THEN a ELSE b

Max(a, b) == IF a > b THEN a ELSE b

Pow2(n) == IF n = 0 THEN 1 ELSE IF n = 1 THEN 2 ELSE IF n = 2 THEN 4 ELSE 8

\* ---- RateLimiter ----

\* current * factor without the cap
PenMul_NoCap(p, f) ==
  IF f = 2 /\ p[2] > 1 THEN <<p[1], p[2] \div 2>> ELSE <<p[1] * f, p[2]>>

\* min(current * factor, 5.0) on a fraction kept in lowest terms
PenMul(p, f) ==
  LET q == IF f = 2 /\ p[2] > 1 THEN <<p[1], p[2] \div 2>> ELSE <<p[1] * f, p[2]>>
  IN IF q[1] >= max_penalty * q[2] THEN <<max_penalty, 1>> ELSE q

\* current * 0.5 without the floor
PenHalf_NoFloor(p) ==
  IF p[1] % 2 = 0 THEN <<p[1] \div 2, p[2]>> ELSE <<p[1], 2 * p[2]>>

\* max(1.0, current * 0.5)
PenHalf(p) ==
  IF p[1] < 2 * p[2] THEN One
  ELSE IF p[1] % 2 = 0 THEN <<p[1] \div 2, p[2]>> ELSE <<p[1], 2 * p[2]>>

penalize(pen, h, f) == [pen EXCEPT ![h] = PenMul(pen[h], f)]

reset_penalty(pen, h) == [pen EXCEPT ![h] = PenHalf(pen[h])]

is_blocked(h) == blocked[h] # "none"

block(blk, h, reason) == IF blk[h] = "none" THEN [blk EXCEPT ![h] = reason] ELSE blk

record_fail(fc, h) == [fc EXCEPT ![h] = fc[h] + 1]

reset_fail(fc, h) == [fc EXCEPT ![h] = 0]

\* a wait that stamps and returns without pacing
WaitUntil_NoSleep(last, p, j) == now

\* wait(): the first tick t >= now with  t - last >= default_interval * penalty + j
WaitUntil(last, p, j) ==
  Max(now, (last * p[2] + default_interval * p[1] + j * p[2] + p[2] - 1) \div p[2])

\* ---- the passage of time ----

Past(t, d) == Max(t - d, -Horizon)

Later(t, d) == Max(t - d, 0)

\* what is remembered about a call: whether the host was blocked when it
\* began, how many requests it has sent, the outcome of the last one, and
\* the Retry-After value it carried (0 when none), and for the request in
\* flight the time it was sent, the penalty factor at that time, whether
\* rate_limiter.wait paced it and what that wait read
NoCall == [blockedAtEntry |-> FALSE, sent |-> 0, lastOutcome |-> "none",
           retryAfter |-> 0,
           sendTime |-> 0, sendPen |-> One, waited |-> FALSE,
           waitLast |-> 0, waitPen |-> One]

Finished(cl) == [NoCall EXCEPT !.blockedAtEntry = cl.blockedAtEntry, !.sent = cl.sent,
                               !.lastOutcome = cl.lastOutcome,
                               !.retryAfter = cl.retryAfter]

\* a successful request: the time it was sent and the penalty factor then
NoReq == [any |-> FALSE, t |-> 0, pen |-> One]

\* two successive successful requests: the time between them, the penalty
\* factor at the first, whether the wait before the second had read a
\* _last_request no older than the first, and the penalty factor it read
NoPair == [any |-> FALSE, gap |-> 0, pen1 |-> One, seen2 |-> FALSE, waitPen2 |-> One]

AgeCall(cl, d) == [cl EXCEPT !.sendTime = Past(@, d), !.waitLast = Past(@, d)]

AgeReq(r, d) == [r EXCEPT !.t = Past(@, d)]

\* d ticks elapse while crawler c sleeps
Elapse(c, d) ==
  /\ last_request' = [h \in Hosts |-> Past(last_request[h], d)]
  /\ wake' = [x \in Crawlers |-> IF x = c THEN 0 ELSE Later(wake[x], d)]
  /\ lastOk' = [h \in Hosts |-> AgeReq(lastOk[h], d)]

InitCrawl ==
  /\ last_request = [h \in Hosts |-> -Horizon]
  /\ penalties = [h \in Hosts |-> One]
  /\ blocked = [h \in Hosts |-> "none"]
  /\ fail_count = [h \in Hosts |-> 0]
  /\ n403 = [h \in Hosts |-> 0]
  /\ pc = [c \in Crawlers |-> "idle"]
  /\ domain = [c \in Crawlers |-> "h1"]
  /\ attempt = [c \in Crawlers |-> 0]
  /\ wake = [c \in Crawlers |-> 0]
  /\ request_count = [c \in Crawlers |-> 0]
  /\ ret = [c \in Crawlers |-> "none"]
  /\ call = [c \in Crawlers |-> NoCall]
  /\ lastOk = [h \in Hosts |-> NoReq]
  /\ okPair = [h \in Hosts |-> NoPair]

\* ---- BaseCrawler.safe_request ----

Requests == request_count["c1"] + request_count["c2"]

\* entry of safe_request: the blocked-host check, then the first iteration
Call(c, h) ==
  /\ pc[c] = "idle"
  /\ domain' = [domain EXCEPT ![c] = h]
  /\ IF is_blocked(h)
       THEN /\ ret' = [ret EXCEPT ![c] = "nil"]
            /\ pc' = pc
       ELSE /\ pc' = [pc EXCEPT ![c] = "loop"]
            /\ ret' = [ret EXCEPT ![c] = "none"]
  /\ call' = [call EXCEPT ![c] = [NoCall EXCEPT !.blockedAtEntry = (blocked[h] # "none")]]
  /\ UNCHANGED <<last_request, penalties, blocked, fail_count, n403, attempt, wake,
                 request_count, lastOk, okPair>>
  /\ UNCHANGED <<storeVars, cycVars, engVars, orchVars>>

\* rate_limiter.wait(domain), up to the sleep.  A blocked domain makes wait
\* return at once, and safe_request goes on to send the request:
\* self._request_count += 1; resp = self.session.request(...)
WaitBegin(c, j) ==
  LET h == domain[c] IN
  /\ pc[c] = "loop"
  /\ IF is_blocked(h)
       THEN /\ Requests < MaxReq
            /\ request_count' = [request_count EXCEPT ![c] = @ + 1]
            /\ pc' = [pc EXCEPT ![c] = "wire"]
            /\ call' = [call EXCEPT ![c].sent = @ + 1, ![c].sendTime = now,
                                    ![c].sendPen = penalties[h], ![c].waited = FALSE]
            /\ wake' = wake
       ELSE /\ pc' = [pc EXCEPT ![c] = "wait"]
            /\ wake' = [wake EXCEPT ![c] = WaitUntil(last_request[h], penalties[h], j)]
            /\ call' = [call EXCEPT ![c].waitLast = last_request[h],
                                    ![c].waitPen = penalties[h]]
            /\ request_count' = request_count
  /\ UNCHANGED <<last_request, penalties, blocked, fail_count, n403, domain,
                 attempt, ret, lastOk, okPair>>
  /\ UNCHANGED <<storeVars, cycVars, engVars, orchVars>>

\* end of the sleep in wait: stamp _last_request, rotate the UA, send
WaitEnd(c) ==
  LET h == domain[c]
      d == wake[c]
  IN
  /\ pc[c] = "wait"
  /\ Requests < MaxReq
  /\ wake' = [x \in Crawlers |-> IF x = c THEN 0 ELSE Later(wake[x], d)]
  /\ lastOk' = [g \in Hosts |-> AgeReq(lastOk[g], d)]
  /\ last_request' = [g \in Hosts |-> IF g = h THEN now ELSE Past(last_request[g], d)]
  /\ request_count' = [request_count EXCEPT ![c] = @ + 1]
  /\ pc' = [pc EXCEPT ![c] = "wire"]
  /\ call' = [x \in Crawlers |->
                IF x = c
                  THEN [AgeCall(call[c], d) EXCEPT !.sent = @ + 1, !.sendTime = now,
                          !.sendPen = penalties[h], !.waited = TRUE]
                  ELSE AgeCall(call[x], d)]
  /\ UNCHANGED <<penalties, blocked, fail_count, n403, domain, attempt, ret, okPair>>
  /\ UNCHANGED <<storeVars, cycVars, engVars, orchVars>>

\* a policy that treats 401 like a first 403: sleep and retry, no block
Policy_Retry401(o, a, fails, ra) ==
  IF o \in {"401", "403", "403ra", "412"}
    THEN IF o = "401" \/ fails < 2
           THEN [step |-> "sleep", block |-> "none", factor |-> 1, lo |-> 4, hi |-> 8]
           ELSE [step |-> "return_nil", block |-> "403", factor |-> 1, lo |-> 0, hi |-> 0]
    ELSE IF o = "200"
      THEN [step |-> "return_resp", block |-> "none", factor |-> 1, lo |-> 0, hi |-> 0]
      ELSE [step |-> "raise", block |-> "none", factor |-> 1, lo |-> 0, hi |-> 0]

\* what the status-code policy decides for outcome o of attempt a, when the
\* host's failure counter (already incremented where the policy increments
\* it) is `fails`: the step ("return_nil", "return_resp", "sleep", "raise"),
\* whether the host gets blocked and with which reason, the factor the
\* penalty is multiplied by (1: none), and the two ends of the sleep in ticks
Policy(o, a, fails, ra) ==
  CASE o = "401" ->
         [step |-> "return_nil", block |-> IF fails >= 1 THEN "401" ELSE "none",
          factor |-> 1, lo |-> 0, hi |-> 0]
    [] o = "403" ->
         IF fails >= 2
           THEN [step |-> "return_nil", block |-> "403", factor |-> 1, lo |-> 0, hi |-> 0]
           ELSE [step |-> "sleep", block |-> "none", factor |-> 1, lo |-> 4, hi |-> 8]
    [] o = "403ra" ->
         IF a < max_retries - 1
           THEN IF ra < 0
                  THEN [step |-> "raise", block |-> "none", factor |-> 1, lo |-> 0, hi |-> 0]
                  ELSE [step |-> "sleep", block |-> "none", factor |-> 1,
                        lo |-> 2 * Min(ra, retry_after_cap),
                        hi |-> 2 * Min(ra, retry_after_cap)]
           ELSE IF fails >= 2
             THEN [step |-> "return_nil", block |-> "403", factor |-> 1, lo |-> 0, hi |-> 0]
             ELSE [step |-> "sleep", block |-> "none", factor |-> 1, lo |-> 4, hi |-> 8]
    [] o = "429" ->
         [step |-> "sleep", block |-> "none", factor |-> 2,
          lo |-> 2 * Pow2(a + 1) + 2, hi |-> 2 * Pow2(a + 1) + 6]
    [] o = "412" ->
         IF fails >= 2
           THEN [step |-> "return_nil", block |-> "412", factor |-> 1, lo |-> 0, hi |-> 0]
           ELSE [step |-> "sleep", block |-> "none", factor |-> 3, lo |-> 10, hi |-> 20]
    [] o = "200" ->
         [step |-> "return_resp", block |-> "none", factor |-> 1, lo |-> 0, hi |-> 0]
    [] o = "err" ->
         [step |-> "raise", block |-> "none", factor |-> 1, lo |-> 0, hi |-> 0]

\* the sleep of the `except Exception` branch: 2**attempt + uniform(0, 2)
\* seconds, skipped on the last attempt
ExceptSleep(a, u) == IF a < max_retries - 1 THEN 2 * Pow2(a) + 4 * u ELSE 0

CountsAsFailure(o) == o \in {"401", "403", "403ra", "412"}

\* the successful request q remembered for a host and the request of call cl,
\* sent after it and just answered successfully
PairOf(q, cl) ==
  [any |-> TRUE, gap |-> cl.sendTime - q.t, pen1 |-> q.pen,
   seen2 |-> cl.waited /\ cl.waitLast >= q.t, waitPen2 |-> cl.waitPen]

\* the response (or the exception) of the request in flight, and the
\* status-code policy applied to it
Recv(c, o, ra, u) ==
  LET h == domain[c]
      fc == IF CountsAsFailure(o) THEN record_fail(fail_count, h) ELSE fail_count
      p == Policy(o, attempt[c], fc[h], ra)
      d == IF p.step = "raise" THEN ExceptSleep(attempt[c], u)
           ELSE p.lo + u * (p.hi - p.lo)
      r == [any |-> TRUE, t |-> call[c].sendTime, pen |-> call[c].sendPen]
      hdr == IF o = "403ra" THEN ra ELSE 0
  IN
  /\ pc[c] = "wire"
  /\ fail_count' = IF p.step = "return_resp" THEN reset_fail(fail_count, h) ELSE fc
  /\ n403' = [n403 EXCEPT ![h] = IF p.step = "return_resp" THEN 0
                                  ELSE IF o = "403" THEN @ + 1 ELSE @]
  /\ blocked' = IF p.block # "none" THEN block(blocked, h, p.block) ELSE blocked
  /\ penalties' = IF p.step = "return_resp" THEN reset_penalty(penalties, h)
                  ELSE IF p.factor > 1 THEN penalize(penalties, h, p.factor)
                  ELSE penalties
  /\ IF p.step \in {"return_nil", "return_resp"}
       THEN /\ pc' = [pc EXCEPT ![c] = "idle"]
            /\ ret' = [ret EXCEPT ![c] = IF p.step = "return_resp" THEN "resp" ELSE "nil"]
            /\ attempt' = [attempt EXCEPT ![c] = 0]
            /\ wake' = wake
            /\ call' = [call EXCEPT ![c] = Finished([call[c] EXCEPT !.lastOutcome = o,
                                                                     !.retryAfter = hdr])]
       ELSE /\ pc' = [pc EXCEPT ![c] = "backoff"]
            /\ wake' = [wake EXCEPT ![c] = now + d]
            /\ call' = [call EXCEPT ![c].lastOutcome = o, ![c].retryAfter = hdr]
            /\ UNCHANGED <<ret, attempt>>
  /\ IF p.step = "return_resp"
       THEN /\ lastOk' = [lastOk EXCEPT ![h] = IF @.any /\ @.t > r.t THEN @ ELSE r]
            /\ okPair' = [okPair EXCEPT ![h] =
                  IF lastOk[h].any /\ lastOk[h].t > -Horizon /\ lastOk[h].t <= r.t
                    THEN PairOf(lastOk[h], call[c]) ELSE @]
       ELSE UNCHANGED <<lastOk, okPair>>
  /\ UNCHANGED <<last_request, domain, request_count>>
  /\ UNCHANGED <<storeVars, cycVars, engVars, orchVars>>

\* a loop that never runs out of attempts
MoreAttempts_Unbounded(a) == TRUE

\* `for attempt in range(max_retries)`: there is an iteration after attempt a
MoreAttempts(a) == a + 1 < max_retries

\* end of a back-off sleep: next iteration of `for attempt in range(max_retries)`,
\* or the final `return None`
LoopNext(c) ==
  LET d == wake[c] IN
  /\ pc[c] = "backoff"
  /\ Elapse(c, d)
  /\ IF MoreAttempts(attempt[c])
       THEN /\ attempt' = [attempt EXCEPT ![c] = @ + 1]
            /\ pc' = [pc EXCEPT ![c] = "loop"]
            /\ call' = [x \in Crawlers |-> AgeCall(call[x], d)]
            /\ ret' = ret
       ELSE /\ pc' = [pc EXCEPT ![c] = "idle"]
            /\ ret' = [ret EXCEPT ![c] = "nil"]
            /\ attempt' = [attempt EXCEPT ![c] = 0]
            /\ call' = [x \in Crawlers |->
                          IF x = c THEN Finished(call[c]) ELSE AgeCall(call[x], d)]
  /\ UNCHANGED <<penalties, blocked, fail_count, n403, domain, request_count, okPair>>
  /\ UNCHANGED <<storeVars, cycVars, engVars, orchVars>>

\* CrawlOrchestrator.crawl_all runs the platform crawlers one after the
\* other: a crawler enters safe_request only while no other is inside it
SerialCall(c, h) ==
  /\ \A x \in Crawlers : pc[x] = "idle"
  /\ Call(c, h)

NextCrawl ==
  \/ \E c \in Crawlers, h \in Hosts : SerialCall(c, h)
  \/ \E c \in Crawlers, j \in {0, jitter} : WaitBegin(c, j)
  \/ \E c \in Crawlers : WaitEnd(c)
  \/ \E c \in Crawlers, o \in Outcomes, ra \in RetryAfterValues, u \in Draws : Recv(c, o, ra, u)
  \/ \E c \in Crawlers : LoopNext(c)

\* crawlers run concurrently on one host, as callers sharing the global
\* limiter from several threads would; the random draws are taken at their lower end
NextConc ==
  \/ \E c \in Crawlers : Call(c, "h1")
  \/ \E c \in Crawlers : WaitBegin(c, 0)
  \/ \E c \in Crawlers : WaitEnd(c)
  \/ \E c \in Crawlers, o \in Outcomes : Recv(c, o, 0, 0)
  \/ \E c \in Crawlers : LoopNext(c)

(***************************************************************************)
(* Part 2.  TimeSeriesStore                                                *)
(*                                                                         *)
(* The store is a dict keyword -> entry kept in insertion order, which is  *)
(* the order json.dump writes it in.  Times are hours on the UTC clock;    *)
(* the code holds them as ISO-8601 strings made by one formatter and       *)
(* compares them as strings, which orders them as the instants they name.  *)
(* Engagement is held in tenths.                                           *)
(***************************************************************************)

Keywords == {"k1", "k2"}

\* HISTORY_WINDOWS = 144 in the source; the cap is scaled down so that a few
\* record calls reach it
HISTORY_WINDOWS == 2

\* cleanup(max_age_hours=48)
max_age_hours == 48

\* hours that pass between two observations of the clock
TickHours == 50

\* bounds of the exploration: clock ticks and record calls in one run
MaxTicks == 1
MaxRecords == 3

\* window_time=None (or an empty string): the window is stamped with the clock
NoTime == -1

\* the arguments of a record call besides the keyword: a zero count, an
\* ordinary window, and a window stamped by the caller
RecordInputs ==
  { [count |-> 0, platforms |-> <<>>, engagement |-> 0, window_time |-> NoTime],
    [count |-> 1, platforms |-> <<"bilibili">>, engagement |-> 5, window_time |-> NoTime],
    [count |-> 2, platforms |-> <<"bilibili", "baidu">>, engagement |-> 10,
     window_time |-> 10] }

\* ---- the dict ----

Keys(d) == {d[i].key : i \in 1..Len(d)}

IndexOf(d, k) == CHOOSE i \in 1..Len(d) : d[i].key = k

\* dict equality: the same keys with equal values, whatever the order
DictEq(a, b) ==
  /\ Keys(a) = Keys(b)
  /\ \A k \in Keys(a) : a[IndexOf(a, k)] = b[IndexOf(b, k)]

\* ---- record ----

\* a slice that keeps the first n elements
LastN_KeepsOldest(s, n) == IF Len(s) > n THEN SubSeq(s, 1, n) ELSE s

\* if len(windows) > n: windows = windows[-n:]
LastN(s, n) == IF Len(s) > n THEN SubSeq(s, Len(s) - n + 1, Len(s)) ELSE s

\* a peak test that also fires on a tie
IsNewPeak_OnTie(count, peak) == count >= peak

\* if count > rec.get('peak_count', 0)
IsNewPeak(count, peak) == count > peak

NewEntry(k, t) ==
  [key |-> k, windows |-> <<>>, first_seen |-> t, peak_count |-> 0, peak_time |-> t]

Window(t, count, platforms, engagement) ==
  [time |-> t, count |-> count, platforms |-> platforms, engagement |-> engagement]

\* now = window_time or datetime.now(timezone.utc).isoformat()
StampOf(window_time, clk) == IF window_time = NoTime THEN clk ELSE window_time

record(d, k, count, platforms, engagement, window_time, clk) ==
  LET t == StampOf(window_time, clk)
      d0 == IF k \in Keys(d) THEN d ELSE Append(d, NewEntry(k, t))
      i == IndexOf(d0, k)
      rec == d0[i]
      ws == Append(rec.windows, Window(t, count, platforms, engagement))
      pk == IsNewPeak(count, rec.peak_count)
  IN [d0 EXCEPT ![i] = [rec EXCEPT !.windows = LastN(ws, HISTORY_WINDOWS),
                                   !.peak_count = IF pk THEN count ELSE @,
                                   !.peak_time = IF pk THEN t ELSE @]]

\* get_counts(keyword)
get_counts(d, k) ==
  IF k \in Keys(d)
    THEN [j \in 1..Len(d[IndexOf(d, k)].windows) |-> d[IndexOf(d, k)].windows[j].count]
    ELSE <<>>

\* ---- cleanup ----

\* the test of cleanup: no window at all, or the newest one older than the cutoff
Expired(e, clk) ==
  \/ e.windows = <<>>
  \/ e.windows[Len(e.windows)].time < clk - max_age_hours

cleanup(d, clk) == SelectSeq(d, LAMBDA e : ~ Expired(e, clk))

\* ---- the JSON document ----

\* a JSON object is the sequence of its members, each a name and a value

Member(n, v) == [name |-> n, value |-> v]

\* the value of the last member called n, as json.load keeps it
Get(obj, n) ==
  obj[CHOOSE i \in 1..Len(obj) :
        /\ obj[i].name = n
        /\ \A j \in (i + 1)..Len(obj) : obj[j].name # n].value

\* a writer that rounds the engagement down to a whole number
EncodeWindow_IntEngagement(w) ==
  << Member("time", w.time), Member("count", w.count),
     Member("platforms", w.platforms),
     Member("engagement", (w.engagement \div 10) * 10) >>

EncodeWindow(w) ==
  << Member("time", w.time), Member("count", w.count),
     Member("platforms", w.platforms), Member("engagement", w.engagement) >>

EncodeEntry(e) ==
  Member(e.key,
         << Member("windows", [j \in 1..Len(e.windows) |-> EncodeWindow(e.windows[j])]),
            Member("first_seen", e.first_seen),
            Member("peak_count", e.peak_count),
            Member("peak_time", e.peak_time) >>)

\* json.dump(self.data, f): the members of the top-level object, in order
Encode(d) == [i \in 1..Len(d) |-> EncodeEntry(d[i])]

DecodeWindow(o) ==
  [time |-> Get(o, "time"), count |-> Get(o, "count"),
   platforms |-> Get(o, "platforms"), engagement |-> Get(o, "engagement")]

DecodeEntry(m) ==
  [key |-> m.name,
   windows |-> [j \in 1..Len(Get(m.value, "windows")) |->
                  DecodeWindow(Get(m.value, "windows")[j])],
   first_seen |-> Get(m.value, "first_seen"),
   peak_count |-> Get(m.value, "peak_count"),
   peak_time |-> Get(m.value, "peak_time")]

\* json.load(f) of a complete document
Decode(text) == [i \in 1..Len(text) |-> DecodeEntry(text[i])]

\* the file: whether it exists, the members written to it so far, and whether
\* the document has been written to its closing brace
NoFile == [exists |-> FALSE, text |-> <<>>, closed |-> FALSE, midchar |-> FALSE]

\* _load: a missing file leaves data = {}; a document that does not parse
\* raises json.JSONDecodeError and data = {}
Load(f) == IF f.exists /\ f.closed THEN Decode(f.text) ELSE <<>>

\* json.load(f) on a file whose bytes stop inside a multi-byte character (the
\* document is written with ensure_ascii=False) raises UnicodeDecodeError,
\* which is neither a json.JSONDecodeError nor an IOError: _load lets it through
LoadRaises(f) == f.exists /\ ~ f.closed /\ f.midchar

\* ---- the store as a state machine ----

NoHist == [k \in Keywords |-> <<>>]

NeverSaved == [any |-> FALSE, torn |-> FALSE, data |-> <<>>, hist |-> NoHist]

\* TimeSeriesStore(): no file yet, so _load leaves data = {}
InitStore ==
  /\ data = <<>>
  /\ file = NoFile
  /\ clock = 0
  /\ spc = "idle"
  /\ nrec = 0
  /\ hist = NoHist
  /\ saved = NeverSaved
  /\ loaded = TRUE

\* the windows recorded for the entries that _load brings back
LoadedHist(f) == IF f.exists /\ f.closed THEN saved.hist ELSE NoHist

\* store.record(k, count, platforms, engagement, window_time)
StoreRecord(k, inp) ==
  /\ spc = "idle"
  /\ nrec < MaxRecords
  /\ data' = record(data, k, inp.count, inp.platforms, inp.engagement,
                    inp.window_time, clock)
  /\ hist' = [hist EXCEPT ![k] =
                Append(IF k \in Keys(data) THEN @ ELSE <<>>,
                       Window(StampOf(inp.window_time, clock), inp.count,
                              inp.platforms, inp.engagement))]
  /\ nrec' = nrec + 1
  /\ loaded' = FALSE
  /\ UNCHANGED <<file, clock, spc, saved>>
  /\ UNCHANGED <<crawlVars, cycVars, engVars, orchVars>>

\* store.cleanup()
StoreCleanup ==
  /\ spc = "idle"
  /\ data' = cleanup(data, clock)
  /\ hist' = [k \in Keywords |-> IF k \in Keys(data') THEN hist[k] ELSE <<>>]
  /\ loaded' = (loaded /\ data' = data)
  /\ UNCHANGED <<file, clock, spc, nrec, saved>>
  /\ UNCHANGED <<crawlVars, cycVars, engVars, orchVars>>

\* store.save(), first step: open(self.store_path, 'w') creates the file or
\* truncates it
SaveOpen ==
  /\ spc = "idle"
  /\ file' = [exists |-> TRUE, text |-> <<>>, closed |-> FALSE, midchar |-> FALSE]
  /\ spc' = "writing"
  /\ saved' = [saved EXCEPT !.torn = TRUE]
  /\ UNCHANGED <<data, clock, nrec, hist, loaded>>
  /\ UNCHANGED <<crawlVars, cycVars, engVars, orchVars>>

\* store.save(), json.dump: the buffer is flushed to the file with one more
\* member of the document in it
SaveFlush ==
  /\ spc = "writing"
  /\ Len(file.text) < Len(data)
  /\ file' = [file EXCEPT !.text = Append(@, Encode(data)[Len(@) + 1])]
  /\ UNCHANGED <<data, clock, spc, nrec, hist, saved, loaded>>
  /\ UNCHANGED <<crawlVars, cycVars, engVars, orchVars>>

\* store.save(), end of the with block: the rest of the document is flushed
\* and the file closed
SaveClose ==
  /\ spc = "writing"
  /\ file' = [exists |-> TRUE, text |-> Encode(data), closed |-> TRUE,
               midchar |-> FALSE]
  /\ spc' = "idle"
  /\ saved' = [any |-> TRUE, torn |-> FALSE, data |-> data, hist |-> hist]
  /\ UNCHANGED <<data, clock, nrec, hist, loaded>>
  /\ UNCHANGED <<crawlVars, cycVars, engVars, orchVars>>

\* what __init__ and _load leave, given the file they find
Construct(f) ==
  /\ spc' = IF LoadRaises(f) THEN "raised" ELSE "idle"
  /\ data' = IF LoadRaises(f) THEN <<>> ELSE Load(f)
  /\ hist' = IF LoadRaises(f) THEN NoHist ELSE LoadedHist(f)
  /\ loaded' = ~ LoadRaises(f)

\* a new TimeSeriesStore on the same path replaces the object: __init__, _load
Reopen ==
  /\ spc \in {"idle", "raised"}
  /\ Construct(file)
  /\ UNCHANGED <<file, clock, nrec, saved>>
  /\ UNCHANGED <<crawlVars, cycVars, engVars, orchVars>>

\* the process stops inside save(), with the last bytes it flushed ending
\* between two characters or, when part of a member was flushed, inside one;
\* the next run builds a new TimeSeriesStore on the file as it was left
Crash(cut) ==
  /\ spc = "writing"
  /\ cut => Len(file.text) < Len(data)
  /\ file' = [file EXCEPT !.midchar = cut]
  /\ Construct(file')
  /\ UNCHANGED <<clock, nrec, saved>>
  /\ UNCHANGED <<crawlVars, cycVars, engVars, orchVars>>

\* time passes, between two operations
Tick ==
  /\ spc = "idle"
  /\ dpc = "idle"
  /\ clock < MaxTicks * TickHours
  /\ clock' = clock + TickHours
  /\ UNCHANGED <<data, file, spc, nrec, hist, saved, loaded>>
  /\ UNCHANGED <<crawlVars, cycVars, engVars, orchVars>>

NextStore ==
  \/ \E k \in Keywords, inp \in RecordInputs : StoreRecord(k, inp)
  \/ StoreCleanup
  \/ SaveOpen
  \/ SaveFlush
  \/ SaveClose
  \/ Reopen
  \/ \E cut \in BOOLEAN : Crash(cut)
  \/ Tick

(***************************************************************************)
(* Part 3.  CrawlOrchestrator.crawl_all and discover_trends                *)
(*                                                                         *)
(* A cycle is one call of discover_trends: the orchestrator asks each      *)
(* platform crawler in turn, the items of news.json are added, and unless  *)
(* nothing was collected a fresh TrendEngine (with a fresh TimeSeriesStore *)
(* loaded from the history file) processes the items, trends.json is       *)
(* written and the trends are merged into news.json.  A platform crawler   *)
(* is seen from outside: it returns items, raises, or gets its host        *)
(* blocked by the limiter on the way.  The raw_*.json dumps that crawl_all *)
(* leaves behind are written and never read back; they are not part of    *)
(* the state.                                                              *)
(***************************************************************************)

\* the platforms of a cycle, in the order of the loop
Platforms == <<"bilibili", "baidu">>

\* platform_domains, onto the hosts of part 1
platform_domains == [bilibili |-> "h1", baidu |-> "h2"]

\* bound of the exploration: calls of discover_trends in one run
MaxCycles == 2

\* titles of the items a crawler can bring back, and the title of the one
\* regular item news.json can hold
CrawlResults == {<<>>, <<"t1", "t2">>}
NewsTitles == {"t3"}

\* the words of a title that count as keywords: self.nlp.tokenize(title),
\* stop words dropped
WordsOf == [t1 |-> {"k1"}, t2 |-> {"k1", "k2"}, t3 |-> {"k2"}]

\* the NLP weights of the keywords, as batch_extract_keywords gives them,
\* times ten and rounded down
NlpWeights == {[k1 |-> 0, k2 |-> 0], [k1 |-> 0, k2 |-> 1]}

\* what a platform crawler's crawl_all can do
CrawlOutcomes ==
  {[kind |-> "items", titles |-> r] : r \in CrawlResults}
    \cup {[kind |-> "raise", titles |-> <<>>], [kind |-> "denied", titles |-> <<>>]}

Item(p, t) == [platform |-> p, title |-> t]

ItemsOf(p, titles) == [j \in 1..Len(titles) |-> Item(p, titles[j])]

\* a handler that lets the exception through
ExceptionCaught_None(kind) == FALSE

\* try: ... except Exception as e: around crawler.crawl_all
ExceptionCaught(kind) == kind = "raise"

\* the titles as text, one character per element
Rep(c, n) == [i \in 1..n |-> c]

TitleText ==
  [t1 |-> <<"A", "b", " ", "c">>,
   t2 |-> <<"d", "e">>,
   t3 |-> <<"n", "e", "w", "s">>,
   t4 |-> <<"a", "b", "c">>,
   t5 |-> Rep("x", 29) \o <<" ", "y">>,
   t6 |-> Rep("x", 29) \o <<"y">>,
   t7 |-> Rep("x", 29) \o <<"y", "z">>]

\* item.title[:30]
key_chars == 30

\* str.lower() on the characters the titles are made of
Lower(c) == IF c = "A" THEN "a" ELSE c

\* .replace(' ', '')
StripSpaces(txt) == SelectSeq(txt, LAMBDA c : c # " ")

\* a key that drops the spaces before it cuts at 30 characters
TitleKey_StripFirst(t) ==
  LET stripped == StripSpaces(TitleText[t])
      cut == SubSeq(stripped, 1, Min(key_chars, Len(stripped)))
  IN [i \in 1..Len(cut) |-> Lower(cut[i])]

\* key = item.title[:30].lower().replace(' ', '')
TitleKey(t) ==
  LET cut == SubSeq(TitleText[t], 1, Min(key_chars, Len(TitleText[t])))
  IN StripSpaces([i \in 1..Len(cut) |-> Lower(cut[i])])

\* the de-duplication at the end of crawl_all: the first item of every title
\* key is kept
RECURSIVE Dedup(_, _)
Dedup(items, seen) ==
  IF items = <<>> THEN <<>>
  ELSE IF TitleKey(Head(items).title) \in seen THEN Dedup(Tail(items), seen)
  ELSE <<Head(items)>> \o Dedup(Tail(items), seen \cup {TitleKey(Head(items).title)})

\* load_news_as_raw(): the regular items of news.json.  The items that
\* merge_trends_to_news adds to the file are marked is_discovered_trend and
\* skipped here, and merging keeps the regular items as they are, so news.json
\* is held as its regular items only
load_news_as_raw(nf) ==
  IF "t3" \in nf.items THEN <<Item("news", "t3")>> ELSE <<>>

\* a test that never takes the short cut
IsEmptyCycle_Never(raw) == FALSE

\* if not raw_items
IsEmptyCycle(raw) == raw = <<>>

\* _extract_all_keywords and _compute_frequency_stats: the weight of a
\* keyword is one per item that mentions it plus the NLP weight nlp[k];
\* keywords with a frequency below 2 are left out
Mentions(raw, k) == Cardinality({j \in 1..Len(raw) : k \in WordsOf[raw[j].title]})

Frequency(raw, nlp, k) == IF Mentions(raw, k) = 0 THEN 0 ELSE Mentions(raw, k) + nlp[k]

\* statistics for every keyword that was seen at all
StatKeys_NoThreshold(raw, nlp) == {k \in Keywords : Frequency(raw, nlp, k) >= 1}

\* if freq < 2: continue
StatKeys(raw, nlp) == {k \in Keywords : Frequency(raw, nlp, k) >= 2}

\* list(a_set_of_str) follows the hashes of the strings, which change with the
\* hash seed of the process (PYTHONHASHSEED, random by default): two of the
\* orders a process can have
HashSeeds == {"s1", "s2"}

SetOrder == [s1 |-> <<"bilibili", "baidu", "news">>, s2 |-> <<"news", "baidu", "bilibili">>]

\* list(S) in a process whose hash seed is `seed`
ListOfSet(S, seed) == SelectSeq(SetOrder[seed], LAMBDA p : p \in S)

\* the platforms of the items that mention k: list(kd['sources'])
SourcesOf(raw, k, seed) ==
  ListOfSet({raw[j].platform : j \in {j \in 1..Len(raw) : k \in WordsOf[raw[j].title]}}, seed)

\* the keywords of a dict in its iteration order
KeySeq(S) == (IF "k1" \in S THEN <<"k1">> ELSE <<>>) \o (IF "k2" \in S THEN <<"k2">> ELSE <<>>)

\* _update_time_series: one record per keyword of freq_stats, window_time = now
RECURSIVE update_time_series(_, _, _, _, _, _)
update_time_series(d, ks, raw, nlp, clk, seed) ==
  IF ks = <<>> THEN d
  ELSE update_time_series(
         record(d, Head(ks), Frequency(raw, nlp, Head(ks)), SourcesOf(raw, Head(ks), seed),
                0, clk, clk),
         Tail(ks), raw, nlp, clk, seed)

\* the windows that _update_time_series records, added to the history
RECURSIVE update_hist(_, _, _, _, _, _, _)
update_hist(h, d, ks, raw, nlp, clk, seed) ==
  IF ks = <<>> THEN h
  ELSE update_hist(
         [h EXCEPT ![Head(ks)] =
            Append(IF Head(ks) \in Keys(d) THEN @ ELSE <<>>,
                   Window(clk, Frequency(raw, nlp, Head(ks)),
                          SourcesOf(raw, Head(ks), seed), 0))],
         d, Tail(ks), raw, nlp, clk, seed)

NoTrends == [exists |-> FALSE, trends |-> <<>>, update_time |-> 0]

NoNews == [items |-> {}]

\* what a cycle found when it started
Snapshot == [file |-> file, data |-> data, trendsFile |-> trendsFile,
             newsFile |-> newsFile]

InitCycle ==
  /\ dpc = "idle"
  /\ oi = 1
  /\ all_items = <<>>
  /\ invoked = {}
  /\ raisedIn = {}
  /\ skipped = {}
  /\ got = {}
  /\ raw_items = <<>>
  /\ trendsFile = NoTrends
  /\ newsFile = NoNews
  /\ result = <<>>
  /\ cycles = 0
  /\ hash_seed = "unset"
  /\ lastKind = "none"
  /\ doneAt = 0
  /\ before = [file |-> NoFile, data |-> <<>>, trendsFile |-> NoTrends,
               newsFile |-> NoNews]

\* discover_trends returns: its locals and the orchestrator are gone
CycleLocalsGone ==
  /\ oi' = 1
  /\ all_items' = <<>>
  /\ invoked' = {}
  /\ raisedIn' = {}
  /\ skipped' = {}
  /\ got' = {}
  /\ raw_items' = <<>>

\* discover_trends() is called; crawl_all starts its loop
StartCycle ==
  /\ dpc = "idle"
  /\ cycles < MaxCycles
  /\ dpc' = "crawl"
  /\ oi' = 1
  /\ all_items' = <<>>
  /\ invoked' = {}
  /\ raisedIn' = {}
  /\ skipped' = {}
  /\ got' = {}
  /\ raw_items' = <<>>
  /\ cycles' = cycles + 1
  /\ lastKind' = "running"
  /\ before' = Snapshot
  /\ UNCHANGED <<trendsFile, newsFile, result, doneAt, hash_seed>>
  /\ UNCHANGED <<crawlVars, storeVars, engVars, orchVars>>

\* crawl_all, one turn of the loop: the platform's host is blocked, skip it
SkipBlocked ==
  /\ dpc = "crawl"
  /\ oi <= Len(Platforms)
  /\ is_blocked(platform_domains[Platforms[oi]])
  /\ skipped' = skipped \cup {Platforms[oi]}
  /\ oi' = oi + 1
  /\ UNCHANGED <<dpc, all_items, invoked, raisedIn, got, raw_items, trendsFile, newsFile, result, cycles, hash_seed, lastKind, doneAt, before>>
  /\ UNCHANGED <<crawlVars, storeVars, engVars, orchVars>>

\* crawl_all, one turn of the loop: the platform crawler is called inside
\* try/except
CrawlPlatform(out) ==
  LET p == Platforms[oi]
      h == platform_domains[p]
      its == ItemsOf(p, out.titles)
  IN
  /\ dpc = "crawl"
  /\ oi <= Len(Platforms)
  /\ ~ is_blocked(h)
  /\ invoked' = invoked \cup {p}
  /\ blocked' = IF out.kind = "denied" THEN block(blocked, h, "401") ELSE blocked
  /\ IF out.kind = "raise"
       THEN /\ IF ExceptionCaught(out.kind)
                 THEN /\ oi' = oi + 1
                      /\ dpc' = dpc
                 ELSE /\ oi' = oi
                      /\ dpc' = "aborted"
            /\ raisedIn' = raisedIn \cup {p}
            /\ UNCHANGED <<all_items, got>>
       ELSE /\ all_items' = all_items \o its
            /\ got' = got \cup {its[j] : j \in 1..Len(its)}
            /\ oi' = oi + 1
            /\ UNCHANGED <<dpc, raisedIn>>
  /\ UNCHANGED <<skipped, raw_items, trendsFile, newsFile, result,
                 cycles, hash_seed, lastKind, doneAt, before>>
  /\ UNCHANGED <<last_request, penalties, fail_count, n403, pc, domain, attempt, wake,
                 request_count, ret, call, lastOk, okPair>>
  /\ UNCHANGED <<storeVars, engVars, orchVars>>

\* crawl_all after the loop: de-duplicate, dump the raw items, return
FinishCrawl ==
  /\ dpc = "crawl"
  /\ oi > Len(Platforms)
  /\ raw_items' = Dedup(all_items, {})
  /\ dpc' = "seed"
  /\ UNCHANGED <<oi, all_items, invoked, raisedIn, skipped, got, trendsFile,
                 newsFile, result, cycles, hash_seed, lastKind, doneAt, before>>
  /\ UNCHANGED <<crawlVars, storeVars, engVars, orchVars>>

\* discover_trends: the news items are added and nothing was collected:
\* return []
EmptyCycle ==
  /\ dpc = "seed"
  /\ IsEmptyCycle(raw_items \o load_news_as_raw(newsFile))
  /\ result' = <<>>
  /\ dpc' = "idle"
  /\ lastKind' = "empty"
  /\ doneAt' = clock
  /\ CycleLocalsGone
  /\ UNCHANGED <<trendsFile, newsFile, cycles, hash_seed, before>>
  /\ UNCHANGED <<crawlVars, storeVars, engVars, orchVars>>

\* what open(path, 'w') does in save and in save_trends
WriteOutcomes == {"ok", "history", "trends"}

\* discover_trends with something collected: TrendEngine() loads the history
\* file; process records the keywords, saves the store and then cleans it up
\* (or returns [] at once for an empty list); save_trends writes trends.json;
\* merge_trends_to_news rewrites news.json around its regular items
\* io is what the two writes meet: with "history" the open() of
\* TimeSeriesStore.save raises, with "trends" the open() of save_trends
\* raises.  Neither save, nor process, nor discover_trends has a handler: the
\* exception leaves discover_trends, which returns nothing and skips the
\* steps that follow.  The loop of the command line catches it, prints it and
\* goes on to the next cycle; without --loop the process ends there.
\* A write error is drawn while neither file exists yet (a data directory
\* that cannot be written), which keeps the failures of one run few.
Analyse(nlp, seed, io) ==
  LET raw == raw_items \o load_news_as_raw(newsFile)
      d0 == Load(file)
      h0 == LoadedHist(file)
      ks == KeySeq(StatKeys(raw, nlp))
      d1 == update_time_series(d0, ks, raw, nlp, clock, seed)
      h1 == update_hist(h0, d0, ks, raw, nlp, clock, seed)
      d2 == cleanup(d1, clock)
  IN
  /\ dpc = "seed"
  /\ io # "ok" => (~ file.exists /\ ~ trendsFile.exists)
  /\ io = "history" => raw # <<>>
  /\ hash_seed \in {"unset", seed}
  /\ hash_seed' = seed
  /\ spc = "idle"
  /\ ~ IsEmptyCycle(raw)
  /\ IF raw = <<>>
       THEN /\ data' = d0
            /\ hist' = h0
            /\ loaded' = TRUE
            /\ UNCHANGED <<file, saved>>
       ELSE IF io = "history"
       THEN /\ data' = d1
            /\ hist' = h1
            /\ loaded' = (d1 = d0)
            /\ UNCHANGED <<file, saved>>
       ELSE /\ file' = [exists |-> TRUE, text |-> Encode(d1), closed |-> TRUE,
                         midchar |-> FALSE]
            /\ saved' = [any |-> TRUE, torn |-> FALSE, data |-> d1, hist |-> h1]
            /\ data' = d2
            /\ hist' = [k \in Keywords |-> IF k \in Keys(d2) THEN h1[k] ELSE <<>>]
            /\ loaded' = (d2 = d0)
  /\ trendsFile' = IF io = "ok"
                     THEN [exists |-> TRUE, trends |-> ks, update_time |-> clock]
                     ELSE trendsFile
  /\ newsFile' = newsFile
  /\ result' = IF io = "ok" THEN ks ELSE <<>>
  /\ dpc' = "idle"
  /\ lastKind' = IF io = "history" THEN "raised_history"
                 ELSE IF io = "trends" THEN "raised_trends"
                 ELSE IF raw = <<>> THEN "empty" ELSE "full"
  /\ doneAt' = clock
  /\ CycleLocalsGone
  /\ UNCHANGED <<clock, spc, nrec>>
  /\ UNCHANGED <<cycles, before>>
  /\ UNCHANGED <<crawlVars, engVars, orchVars>>

\* fetch_news.py runs between two cycles and rewrites news.json
FetchNews(S) ==
  /\ dpc = "idle"
  /\ newsFile # [items |-> S]
  /\ newsFile' = [items |-> S]
  /\ UNCHANGED <<dpc, oi, all_items, invoked, raisedIn, skipped, got, raw_items,
                 trendsFile, result, cycles, hash_seed, lastKind, doneAt, before>>
  /\ UNCHANGED <<crawlVars, storeVars, engVars, orchVars>>

NextCycle ==
  \/ StartCycle
  \/ SkipBlocked
  \/ \E out \in CrawlOutcomes : CrawlPlatform(out)
  \/ FinishCrawl
  \/ EmptyCycle
  \/ \E nlp \in NlpWeights, seed \in HashSeeds, io \in WriteOutcomes :
       Analyse(nlp, seed, io)
  \/ \E S \in SUBSET NewsTitles : FetchNews(S)
  \/ Tick

(***************************************************************************)
(* Part 4.  BurstDetector, HeatScorer and the scoring of a cycle           *)
(*                                                                         *)
(* The functions of the engine are applied to inputs drawn from bounded    *)
(* sets.  A z-score is the real number num / sqrt(rad), held as the pair   *)
(* <<num, rad>> of integers, so that comparisons between z-scores and with *)
(* the threshold are exact.                                                *)
(***************************************************************************)

\* bound of the exploration: length of the enumerated count series
MaxSeries == 3

\* the counts the enumerated series are made of
SeriesCounts == {0, 1, 2, 10}

\* the series of the self-test at the end of trend_engine.py
burst_counts == <<5, 6, 4, 7, 5, 6, 5, 4, 6, 5, 5, 7, 6, 25>>

\* series whose last two counts give each of the five directions
DirectionSeries == {<<10, 16>>, <<10, 30>>, <<10, 10>>, <<20, 5>>, <<10, 14>>, <<10, 8>>}

\* bound of the exploration: length of the enumerated item lists
MaxFeed == 3

\* the items the enumerated lists are made of: titles that agree up to case
\* and spaces, or beyond the 30th character, or not at all
FeedItems == {Item(p, t) : p \in {"bilibili", "baidu"}, t \in {"t1", "t4", "t5", "t6", "t7"}}

FeedInputs == UNION {[1..n -> FeedItems] : n \in 0..MaxFeed}

SeriesInputs ==
  UNION {[1..n -> SeriesCounts] : n \in 0..MaxSeries}
    \cup {burst_counts, SubSeq(burst_counts, 1, Len(burst_counts) - 1)}
    \cup DirectionSeries

RECURSIVE Sum(_)
Sum(s) == IF s = <<>> THEN 0 ELSE Head(s) + Sum(Tail(s))

RECURSIVE SumSq(_)
SumSq(s) == IF s = <<>> THEN 0 ELSE Head(s) * Head(s) + SumSq(Tail(s))

\* BURST_Z_THRESHOLD = 2.5, as the fraction 5/2
BURST_Z_THRESHOLD == <<5, 2>>

\* num / sqrt(rad) > BURST_Z_THRESHOLD
AboveThreshold(z) ==
  /\ z[1] > 0
  /\ z[1] * z[1] * BURST_Z_THRESHOLD[2] * BURST_Z_THRESHOLD[2]
       > BURST_Z_THRESHOLD[1] * BURST_Z_THRESHOLD[1] * z[2]

\* a detector that divides by max(sigma, 1)
z_score_detect_MaxSigma(cs) ==
  IF Len(cs) < 3 THEN [z |-> <<0, 1>>, is_burst |-> FALSE]
  ELSE LET n == Len(cs) - 1
           historical == SubSeq(cs, 1, n)
           v == n * SumSq(historical) - Sum(historical) * Sum(historical)
           z == <<n * cs[Len(cs)] - Sum(historical), Max(v, n * n)>>
       IN [z |-> z, is_burst |-> AboveThreshold(z)]

\* BurstDetector.z_score_detect.  With n historical counts of sum S and sum
\* of squares Q, mean = S/n and variance = (n*Q - S*S)/n^2, so that
\* (current - mean) / std is (n*current - S) / sqrt(n*Q - S*S) when the
\* variance is positive and (n*current - S) / n when it is zero (std = 1.0)
z_score_detect(cs) ==
  IF Len(cs) < 3 THEN [z |-> <<0, 1>>, is_burst |-> FALSE]
  ELSE LET n == Len(cs) - 1
           historical == SubSeq(cs, 1, n)
           v == n * SumSq(historical) - Sum(historical) * Sum(historical)
           z == <<n * cs[Len(cs)] - Sum(historical), IF v > 0 THEN v ELSE n * n>>
       IN [z |-> z, is_burst |-> AboveThreshold(z)]

\* a direction test whose upper threshold is +100 %
determine_direction_Doubling(cs) ==
  IF Len(cs) < 2 THEN "flat"
  ELSE LET current == cs[Len(cs)]
           previous == IF cs[Len(cs) - 1] > 0 THEN cs[Len(cs) - 1] ELSE 1
           diff == current - previous
       IN IF diff > previous THEN "up"
          ELSE IF 10 * diff > previous THEN "slight_up"
          ELSE IF 10 * diff > - previous THEN "flat"
          ELSE IF 2 * diff > - previous THEN "slight_down"
          ELSE "down"

\* HeatScorer.determine_direction; the five arrows are "up", "slight_up",
\* "flat", "slight_down" and "down", and change_rate = diff / previous is
\* compared with 0.5, 0.1, -0.1 and -0.5 after multiplying through by
\* previous > 0
determine_direction(cs) ==
  IF Len(cs) < 2 THEN "flat"
  ELSE LET current == cs[Len(cs)]
           previous == IF cs[Len(cs) - 1] > 0 THEN cs[Len(cs) - 1] ELSE 1
           diff == current - previous
       IN IF 2 * diff > previous THEN "up"
          ELSE IF 10 * diff > previous THEN "slight_up"
          ELSE IF 10 * diff > - previous THEN "flat"
          ELSE IF 2 * diff > - previous THEN "slight_down"
          ELSE "down"

\* ---- scoring ----
\* Real-valued quantities are held as integers in units of 1/Scale, and
\* products and quotients are rounded down to that unit.

Scale == 10000

\* heat weights ALPHA, BETA, GAMMA, DELTA, in tenths
ALPHA == 4
BETA == 3
GAMMA == 2
DELTA == 1

HALF_LIFE_HOURS == 4
MACD_SHORT_PERIOD == 12
MACD_LONG_PERIOD == 26
MACD_SIGNAL_PERIOD == 9

\* trends[:topK]
topK == 50

\* BurstDetector.ema: values in units of 1/Scale, multiplier = 2 / (period + 1)
RECURSIVE ema(_, _)
ema(values, period) ==
  IF values = <<>> THEN <<>>
  ELSE IF Len(values) = 1 THEN values
  ELSE LET ema_values == ema(SubSeq(values, 1, Len(values) - 1), period)
           prev == ema_values[Len(ema_values)]
           val == values[Len(values)]
       IN Append(ema_values, prev + (2 * (val - prev)) \div (period + 1))

\* BurstDetector.macd_detect: the signal
macd_detect(cs) ==
  IF Len(cs) < MACD_LONG_PERIOD THEN "neutral"
  ELSE LET float_counts == [i \in 1..Len(cs) |-> cs[i] * Scale]
           short_ema == ema(float_counts, MACD_SHORT_PERIOD)
           long_ema == ema(float_counts, MACD_LONG_PERIOD)
           macd_line == [i \in 1..Len(cs) |-> short_ema[i] - long_ema[i]]
           signal_line == ema(macd_line, MACD_SIGNAL_PERIOD)
           n == Len(cs)
           prev_diff == macd_line[n - 1] - signal_line[n - 1]
           curr_diff == macd_line[n] - signal_line[n]
       IN IF prev_diff <= 0 /\ curr_diff > 0 THEN "bullish"
          ELSE IF prev_diff >= 0 /\ curr_diff < 0 THEN "bearish"
          ELSE IF curr_diff > 0 THEN "bullish"
          ELSE IF curr_diff < 0 THEN "bearish"
          ELSE "neutral"

\* BurstDetector.calculate_acceleration, in tenths:
\* velocity * 0.6 + acceleration * 0.4
calculate_acceleration(cs) ==
  IF Len(cs) < 3
    THEN IF Len(cs) = 2 THEN 10 * (cs[2] - cs[1]) ELSE 0
    ELSE LET d1 == cs[Len(cs)] - cs[Len(cs) - 1]
             d2 == cs[Len(cs) - 1] - cs[Len(cs) - 2]
         IN 6 * d1 + 4 * (d1 - d2)

\* 2 ** (-q/4) for q = 0..3, in units of 1/Scale
QuarterPow == <<10000, 8409, 7071, 5946>>

RECURSIVE Halve(_, _)
Halve(x, n) == IF n = 0 THEN x ELSE Halve(x \div 2, n - 1)

\* freq * math.exp(-LAMBDA_DECAY * hours_since_peak), for whole hours >= 0
Decayed(freq, hours) ==
  Halve(freq * QuarterPow[(hours % HALF_LIFE_HOURS) + 1], Min(hours \div HALF_LIFE_HOURS, 31))

\* round(heat, 2)
Round2(x) == ((x + Scale \div 200) \div (Scale \div 100)) * (Scale \div 100)

\* HeatScorer.compute_heat; acceleration in tenths, engagement in 1/Scale
compute_heat(freq, acceleration, source_count, engagement, hours_since_peak) ==
  LET f_norm == Min(Decayed(freq, hours_since_peak) \div 10, 10 * Scale)
      a_norm == Max(Min((acceleration * Scale) \div 50, 5 * Scale), -5 * Scale)
      s_norm == (source_count * Scale) \div 3
      e_norm == Min(engagement, Scale)
      raw_score == (ALPHA * f_norm + BETA * Max(0, a_norm) + GAMMA * s_norm
                      + DELTA * e_norm) \div 10
  IN Round2(Min(100 * Scale, raw_score * 15))

\* a boost that is not capped at 100
Boost_NoCap(heat, is_burst, macd_signal) ==
  LET h1 == IF is_burst THEN (heat * 3) \div 2 ELSE heat
  IN IF macd_signal = "bullish" THEN (h1 * 6) \div 5 ELSE h1

\* _score_and_rank: heat = min(100, heat * 1.5) for a burst, then
\* heat = min(100, heat * 1.2) for a bullish MACD
Boost(heat, is_burst, macd_signal) ==
  LET h1 == IF is_burst THEN Min(100 * Scale, (heat * 3) \div 2) ELSE heat
  IN IF macd_signal = "bullish" THEN Min(100 * Scale, (h1 * 6) \div 5) ELSE h1

NotRun == [run |-> FALSE]

\* what is known of a keyword when a cycle scores it: the weight, the
\* platforms and the engagement gathered by _extract_all_keywords, and from the
\* history file the counts of the earlier windows and the age of the peak in
\* hours
KeywordCases ==
  [weight : {1, 3, 100},
   sources : {{"bilibili"}, {"bilibili", "baidu"}},
   engagement : {0, 13, 40},
   earlier : {<<>>, <<1, 1>>, Rep(1, 25)},
   peak_age : {0, 5}]

ScoreInputs == [Keywords -> KeywordCases]

NoKeywordData == [k \in Keywords |->
  [weight |-> 0, sources |-> {}, engagement |-> 0, earlier |-> <<>>, peak_age |-> 0]]

\* max((kd['engagement'] for kd in keyword_data.values()), default=1.0) or 1.0
max_engagement(kd) ==
  LET m == CHOOSE e \in {kd[k].engagement : k \in Keywords} :
             \A k \in Keywords : kd[k].engagement <= e
  IN IF m = 0 THEN 1 ELSE m

\* _compute_frequency_stats: the keywords that stay (freq >= 2), and for them
\* the platforms list and the normalised engagement
StatKeywords(kd) == {k \in Keywords : kd[k].weight >= 2}

engagement_norm(kd, k) == Min((kd[k].engagement * Scale) \div max_engagement(kd), Scale)

\* ts_store.get_counts(keyword) once _update_time_series has recorded the
\* window of this cycle
CountsOf(kd, k) == Append(kd[k].earlier, kd[k].weight)

\* hours since rec['peak_time']: record() moves the peak to the new window
\* when its count is above every earlier one
HoursSincePeak(kd, k) ==
  IF \A i \in 1..Len(kd[k].earlier) : kd[k].earlier[i] < kd[k].weight
    THEN 0 ELSE kd[k].peak_age

\* counts[-20:] if len(counts) >= 2 else counts
Sparkline(cs) == IF Len(cs) > 20 THEN SubSeq(cs, Len(cs) - 19, Len(cs)) ELSE cs

\* _run_burst_detection and _score_and_rank for one keyword: its TrendTopic
TrendTopic(kd, k, seed) ==
  LET cs == CountsOf(kd, k)
      platforms == ListOfSet(kd[k].sources, seed)
      burst == z_score_detect(cs)
      macd_signal == macd_detect(cs)
      acceleration == calculate_acceleration(cs)
      heat == compute_heat(kd[k].weight, acceleration, Len(platforms),
                           engagement_norm(kd, k), HoursSincePeak(kd, k))
  IN [keyword |-> k,
      heat_score |-> Boost(heat, burst.is_burst, macd_signal),
      frequency |-> kd[k].weight,
      acceleration |-> acceleration,
      source_diversity |-> Len(platforms),
      engagement |-> engagement_norm(kd, k),
      is_burst |-> burst.is_burst,
      burst_z_score |-> burst.z,
      macd_signal |-> macd_signal,
      trend_direction |-> determine_direction(cs),
      platforms |-> platforms,
      sparkline |-> Sparkline(cs)]

\* trends.sort(key=lambda t: -t.heat_score): a stable sort, by insertion
RECURSIVE SortByHeat(_)
SortByHeat(ts) ==
  IF ts = <<>> THEN <<>>
  ELSE LET sorted == SortByHeat(SubSeq(ts, 1, Len(ts) - 1))
           t == ts[Len(ts)]
           n == Cardinality({i \in 1..Len(sorted) : sorted[i].heat_score >= t.heat_score})
       IN SubSeq(sorted, 1, n) \o <<t>> \o SubSeq(sorted, n + 1, Len(sorted))

\* _score_and_rank: one topic per keyword of freq_stats in dict order, sorted
\* by heat, cut at topK
score_and_rank(kd, seed) ==
  LET ks == KeySeq(StatKeywords(kd))
      sorted == SortByHeat([i \in 1..Len(ks) |-> TrendTopic(kd, ks[i], seed)])
  IN SubSeq(sorted, 1, Min(topK, Len(sorted)))

\* save_trends: the document written to trends.json
save_trends(trends, clk) ==
  [run |-> TRUE,
   update_time |-> clk,
   total_trends |-> Len(trends),
   burst_count |-> Cardinality({i \in 1..Len(trends) : trends[i].is_burst}),
   trends |-> trends]

\* ---- CrawlOrchestrator.select_keywords ----

\* bound of the exploration: the count argument of select_keywords
MaxSeedCount == 6

\* SEED_KEYWORDS, scaled down to two domains, of three and of two words; one
\* word is in both domains, as one is in the source
SEED_KEYWORDS == [finance |-> <<"f1", "f2", "w">>, society |-> <<"w", "s1">>]

\* categories = list(SEED_KEYWORDS.keys())
categories == <<"finance", "society">>

\* count // len(categories), without the floor of 2
per_cat_NoFloor(n) == n \div Len(categories)

\* per_cat = max(2, count // len(categories))
per_cat(n) == Max(2, n \div Len(categories))

\* random.sample(words, min(per_cat, len(words))): the positions it can draw
Samples(cat, k) ==
  {S \in SUBSET (1..Len(SEED_KEYWORDS[cat])) :
     Cardinality(S) = Min(k, Len(SEED_KEYWORDS[cat]))}

\* what `selected` can hold after the loop over the categories, as entries
\* <<category, position>>
Chosen(n) ==
  {UNION {{<<categories[c], i>> : i \in f[c]} : c \in 1..Len(categories)} :
     f \in {g \in [1..Len(categories) -> SUBSET (1..3)] :
              \A c \in 1..Len(categories) : g[c] \in Samples(categories[c], per_cat(n))}}

\* random.shuffle(selected): the orders it can leave
Shuffles(E) ==
  {q \in [1..Cardinality(E) -> E] :
     \A i, j \in 1..Cardinality(E) : i # j => q[i] # q[j]}

\* the words of a list of entries
WordsAt(q) == [i \in 1..Len(q) |-> SEED_KEYWORDS[q[i][1]][q[i][2]]]

\* select_keywords(count): the lists it can return, selected[:count]
select_keywords(n) ==
  {SubSeq(WordsAt(q), 1, Min(n, Len(q))) : q \in UNION {Shuffles(E) : E \in Chosen(n)}}

\* ---- news.json: load_news_as_raw and merge_trends_to_news ----

\* trends[:30] in the source; the cap is scaled down so that the trends of a
\* run exceed it
MergeCap == 1

\* 'source' of the items merge_trends_to_news writes
TrendSource == "discovered"

\* a title is the sequence of its parts; a title that is empty or shorter
\* than 4 characters is the empty sequence
RegularItem(id, title, source) ==
  [id |-> <<id>>, title |-> title, source |-> source, is_discovered_trend |-> FALSE,
   heat_score |-> 0, fetch_time |-> 0]

\* the item merge_trends_to_news builds for a trend
TrendItem(trend, stamp) ==
  [id |-> <<"trend", trend.keyword>>, title |-> <<trend.trend_direction, trend.keyword>>,
   source |-> TrendSource, is_discovered_trend |-> TRUE,
   heat_score |-> trend.heat_score, fetch_time |-> stamp]

\* the trend an earlier process left in news.json
OldTrend == [keyword |-> "k0", trend_direction |-> "flat", heat_score |-> 50 * Scale]

\* news.json as a run can find it: missing or empty, or regular items of
\* fetch_news.py around a discovered trend of an earlier run
NewsFiles ==
  { <<>>,
    << RegularItem("n1", <<"t3">>, "rss"), TrendItem(OldTrend, 0),
       RegularItem("n2", <<>>, "rss"), RegularItem("n3", <<"t1">>, "toutiao") >> }

\* platform_map: the platform named in the source, 'news' otherwise
PlatformOfSource(source) == IF source = "toutiao" THEN "toutiao" ELSE "news"

\* RawContent(platform, content_id=f"news_{id}", title)
RawOfNews(n) ==
  [platform |-> PlatformOfSource(n.source), content_id |-> <<"news">> \o n.id,
   title |-> n.title]

\* a loader that converts the discovered trends too
RECURSIVE news_to_raw_NoSkip(_)
news_to_raw_NoSkip(news_list) ==
  IF news_list = <<>> THEN <<>>
  ELSE (IF Head(news_list).title = <<>> THEN <<>> ELSE <<RawOfNews(Head(news_list))>>)
         \o news_to_raw_NoSkip(Tail(news_list))

\* load_news_as_raw, the loop over data['items']: discovered trends and items
\* without a title of 4 characters are skipped
RECURSIVE news_to_raw(_)
news_to_raw(news_list) ==
  IF news_list = <<>> THEN <<>>
  ELSE (IF Head(news_list).is_discovered_trend \/ Head(news_list).title = <<>>
          THEN <<>>
          ELSE <<RawOfNews(Head(news_list))>>)
         \o news_to_raw(Tail(news_list))

\* for trend in trends[:30]: if trend.heat_score < 10: continue
RECURSIVE NewTrendItems(_, _)
NewTrendItems(trends, stamp) ==
  IF trends = <<>> THEN <<>>
  ELSE (IF Head(trends).heat_score < 10 * Scale THEN <<>>
          ELSE <<TrendItem(Head(trends), stamp)>>)
         \o NewTrendItems(Tail(trends), stamp)

\* merge_trends_to_news(trends): nothing for an empty list; otherwise the
\* items whose source is not the trend source, then the new trend items
merge_trends_to_news(trends, news_items, stamp) ==
  IF trends = <<>> THEN news_items
  ELSE SelectSeq(news_items, LAMBDA n : n.source # TrendSource)
         \o NewTrendItems(SubSeq(trends, 1, Min(MergeCap, Len(trends))), stamp)

\* the runs made so far
RunsDone == Cardinality({seed \in HashSeeds : trends_json[seed].run})

InitEngine ==
  /\ target = "none"
  /\ counts = <<>>
  /\ detect = NotRun
  /\ direction = "none"
  /\ collected = <<>>
  /\ unique_items = NotRun
  /\ keyword_data = NoKeywordData
  /\ trends_json = [seed \in HashSeeds |-> NotRun]
  /\ keyword_count = 0
  /\ selected = NotRun
  /\ news_json = <<>>
  /\ supplement = NotRun

\* the inputs of one of the engine's functions, drawn from their sets
InitInputs ==
  /\ target \in {"detectors", "dedup", "scoring", "keywords"}
  /\ counts \in IF target = "detectors" THEN SeriesInputs ELSE {<<>>}
  /\ detect = NotRun
  /\ direction = "none"
  /\ collected \in IF target = "dedup" THEN FeedInputs ELSE {<<>>}
  /\ unique_items = NotRun
  /\ keyword_data \in IF target = "scoring" THEN ScoreInputs ELSE {NoKeywordData}
  /\ trends_json = [seed \in HashSeeds |-> NotRun]
  /\ keyword_count \in IF target = "keywords" THEN 1..MaxSeedCount ELSE {0}
  /\ selected = NotRun
  /\ news_json \in IF target = "scoring" THEN NewsFiles ELSE {<<>>}
  /\ supplement = NotRun

\* z, is_burst = BurstDetector.z_score_detect(counts)
ZScoreDetect ==
  /\ target = "detectors"
  /\ detect = NotRun
  /\ detect' = [run |-> TRUE, z |-> z_score_detect(counts).z,
                is_burst |-> z_score_detect(counts).is_burst]
  /\ UNCHANGED <<target, counts, direction, collected, unique_items, keyword_data,
                 trends_json, keyword_count, selected, news_json, supplement>>
  /\ UNCHANGED <<crawlVars, storeVars, cycVars, orchVars>>

\* direction = HeatScorer.determine_direction(counts)
DetermineDirection ==
  /\ target = "detectors"
  /\ direction = "none"
  /\ direction' = determine_direction(counts)
  /\ UNCHANGED <<target, counts, detect, collected, unique_items, keyword_data,
                 trends_json, keyword_count, selected, news_json, supplement>>
  /\ UNCHANGED <<crawlVars, storeVars, cycVars, orchVars>>

\* the de-duplication of crawl_all applied to all_items
DedupCollected ==
  /\ target = "dedup"
  /\ unique_items = NotRun
  /\ unique_items' = [run |-> TRUE, items |-> Dedup(collected, {})]
  /\ UNCHANGED <<target, counts, detect, direction, collected, keyword_data,
                 trends_json, keyword_count, selected, news_json, supplement>>
  /\ UNCHANGED <<crawlVars, storeVars, cycVars, orchVars>>

\* one run of discover_trends on keyword_data in a process whose hash seed
\* is `seed`: load_news_as_raw, process, save_trends, merge_trends_to_news
ScoreRun(seed) ==
  LET trends == score_and_rank(keyword_data, seed)
  IN
  /\ target = "scoring"
  /\ trends_json[seed] = NotRun
  /\ supplement' = [run |-> TRUE, items |-> news_to_raw(news_json)]
  /\ trends_json' = [trends_json EXCEPT ![seed] = save_trends(trends, clock)]
  /\ news_json' = merge_trends_to_news(trends, news_json, RunsDone + 1)
  /\ UNCHANGED <<target, counts, detect, direction, collected, unique_items,
                 keyword_data, keyword_count, selected>>
  /\ UNCHANGED <<crawlVars, storeVars, cycVars, orchVars>>

\* keywords = self.select_keywords(keyword_count)
SelectKeywords ==
  /\ target = "keywords"
  /\ selected = NotRun
  /\ \E l \in select_keywords(keyword_count) : selected' = [run |-> TRUE, keywords |-> l]
  /\ UNCHANGED <<target, counts, detect, direction, collected, unique_items,
                 keyword_data, trends_json, keyword_count, news_json, supplement>>
  /\ UNCHANGED <<crawlVars, storeVars, cycVars, orchVars>>

NextEngine ==
  \/ SelectKeywords
  \/ ZScoreDetect
  \/ DetermineDirection
  \/ DedupCollected
  \/ \E seed \in HashSeeds : ScoreRun(seed)

(***************************************************************************)
(* Part 5.  The platform crawlers under CrawlOrchestrator.crawl_all        *)
(*                                                                         *)
(* crawl_all is followed through the crawl_all of the platform crawlers it *)
(* calls: BilibiliCrawler (one request, like ZhihuCrawler and              *)
(* BaiduCrawler) and DouyinCrawler (a loop over the keywords, then the     *)
(* expansion of the discovered words).  Every request of a crawler goes    *)
(* through safe_request, to the one host of its platform; safe_request is  *)
(* taken here by what it returns and by whether it blocked the host.       *)
(***************************************************************************)

\* bounds of the exploration: calls of crawl_all in one run of the process,
\* and keywords select_keywords hands to the crawlers
MaxRuns == 2
MaxKeywords == 2

\* the platforms argument of crawl_all
PlatformLists ==
  {<<"bilibili">>, <<"douyin">>, <<"bilibili", "douyin">>, <<"douyin", "bilibili">>}

\* the host every URL of the platform's crawler is on (h2 is www.douyin.com
\* in this part)
crawler_domain == [bilibili |-> "h1", douyin |-> "h2"]

\* what a safe_request that sent a request can end with: a response the
\* crawler parses items (or suggestions) from, a response it finds nothing
\* in, None, or None after blocking the host
RequestOutcomes == {"items", "empty", "nil", "block"}

\* safe_request to host h ending with out: the value it returns; on a host
\* that is blocked it returns None before the loop
ResponseOf(h, out) == IF is_blocked(h) \/ out \in {"nil", "block"} THEN "nil" ELSE out

\* safe_request to host h ending with out: the limiter's _blocked after it
BlockedAfter(h, out) ==
  IF ~ is_blocked(h) /\ out = "block" THEN block(blocked, h, "403") ELSE blocked

\* safe_request to host h: the requests sent, one more unless the host is
\* blocked at entry
HttpAfter(h) == IF is_blocked(h) THEN http ELSE [http EXCEPT ![h] = @ + 1]

\* safe_request(url) on host h, ending with out
safe_request(h, out) ==
  /\ is_blocked(h) => out = "nil"
  /\ blocked' = BlockedAfter(h, out)
  /\ http' = HttpAfter(h)

\* the items (or the suggested words) a crawler parses from what
\* safe_request returned
Parsed(p, resp) == IF resp = "items" THEN <<Item(p, "t1")>> ELSE <<>>

\* an orchestrator that calls every crawler
PlatformBlocked_Never(dom) == FALSE

\* if domain and rate_limiter.is_blocked(domain)
PlatformBlocked(dom) == is_blocked(dom)

NoHttp == [h \in Hosts |-> 0]

InitOrch ==
  /\ opc = "idle"
  /\ requested = <<>>
  /\ nkw = 0
  /\ visited = <<>>
  /\ runs = 0
  /\ cpc = "none"
  /\ kwi = 1
  /\ c_items = <<>>
  /\ words = 0
  /\ expand_left = 0
  /\ http = NoHttp

\* the variables of the other parts that crawl_all does not touch
OrchFrame ==
  /\ UNCHANGED <<last_request, penalties, fail_count, n403, pc, domain, attempt, wake,
                 request_count, ret, call, lastOk, okPair>>
  /\ UNCHANGED <<dpc, got, raisedIn, trendsFile, newsFile, result, cycles, hash_seed,
                 lastKind, doneAt, before>>
  /\ UNCHANGED <<storeVars, engVars>>

\* crawl_all(platforms, keyword_count) is called; select_keywords returns n
\* keywords
StartRun(pl, n) ==
  /\ opc = "idle"
  /\ runs < MaxRuns
  /\ opc' = "loop"
  /\ requested' = pl
  /\ nkw' = n
  /\ oi' = 1
  /\ all_items' = <<>>
  /\ visited' = <<>>
  /\ invoked' = {}
  /\ skipped' = {}
  /\ raw_items' = <<>>
  /\ runs' = runs + 1
  /\ http' = NoHttp
  /\ UNCHANGED <<blocked, cpc, kwi, c_items, words, expand_left>>
  /\ OrchFrame

\* one turn of `for platform in platforms`: the host is blocked, continue
OrchSkip ==
  /\ opc = "loop"
  /\ oi <= Len(requested)
  /\ PlatformBlocked(crawler_domain[requested[oi]])
  /\ skipped' = skipped \cup {requested[oi]}
  /\ visited' = Append(visited, requested[oi])
  /\ oi' = oi + 1
  /\ UNCHANGED <<opc, requested, nkw, runs, cpc, kwi, c_items, words, expand_left, http>>
  /\ UNCHANGED <<blocked, all_items, invoked, raw_items>>
  /\ OrchFrame

\* one turn of `for platform in platforms`: crawler.crawl_all(keywords) is
\* called
OrchCall ==
  /\ opc = "loop"
  /\ oi <= Len(requested)
  /\ ~ PlatformBlocked(crawler_domain[requested[oi]])
  /\ invoked' = invoked \cup {requested[oi]}
  /\ visited' = Append(visited, requested[oi])
  /\ opc' = "crawler"
  /\ cpc' = IF requested[oi] = "douyin" THEN "kw" ELSE "popular"
  /\ kwi' = 1
  /\ c_items' = <<>>
  /\ words' = 0
  /\ expand_left' = 0
  /\ UNCHANGED <<requested, nkw, runs, http>>
  /\ UNCHANGED <<blocked, oi, all_items, skipped, raw_items>>
  /\ OrchFrame

\* BilibiliCrawler.crawl_all: return self.crawl_popular()
BilibiliPopular(out) ==
  /\ opc = "crawler"
  /\ cpc = "popular"
  /\ safe_request(crawler_domain["bilibili"], out)
  /\ c_items' = Parsed("bilibili", ResponseOf(crawler_domain["bilibili"], out))
  /\ cpc' = "return"
  /\ UNCHANGED <<opc, requested, nkw, visited, runs, kwi, words, expand_left>>
  /\ UNCHANGED <<oi, all_items, invoked, skipped, raw_items>>
  /\ OrchFrame

\* DouyinCrawler.crawl_all, head of `for kw in keywords`: the loop ends with
\* the keywords, or by the break when the host is blocked; after it,
\* expand_words = random.sample(all_discovered_words, min(3, len(...)))
DouyinLoop ==
  /\ opc = "crawler"
  /\ cpc = "kw"
  /\ IF kwi <= nkw /\ ~ is_blocked(crawler_domain["douyin"])
       THEN /\ cpc' = "suggest"
            /\ expand_left' = expand_left
       ELSE /\ cpc' = IF words = 0 THEN "return" ELSE "expand"
            /\ expand_left' = Min(3, words)
  /\ UNCHANGED <<opc, requested, nkw, visited, runs, kwi, c_items, words, http>>
  /\ UNCHANGED <<blocked, oi, all_items, invoked, skipped, raw_items>>
  /\ OrchFrame

\* suggestions = self.crawl_search_suggest(kw);
\* all_discovered_words.extend(suggestions[:5])
DouyinSuggest(out) ==
  /\ opc = "crawler"
  /\ cpc = "suggest"
  /\ safe_request(crawler_domain["douyin"], out)
  /\ words' = words + Len(Parsed("douyin", ResponseOf(crawler_domain["douyin"], out)))
  /\ cpc' = "page"
  /\ UNCHANGED <<opc, requested, nkw, visited, runs, kwi, c_items, expand_left>>
  /\ UNCHANGED <<oi, all_items, invoked, skipped, raw_items>>
  /\ OrchFrame

\* items = self.crawl_search_page(kw); all_items.extend(items)
DouyinPage(out) ==
  /\ opc = "crawler"
  /\ cpc = "page"
  /\ safe_request(crawler_domain["douyin"], out)
  /\ c_items' = c_items \o Parsed("douyin", ResponseOf(crawler_domain["douyin"], out))
  /\ kwi' = kwi + 1
  /\ cpc' = "kw"
  /\ UNCHANGED <<opc, requested, nkw, visited, runs, words, expand_left>>
  /\ UNCHANGED <<oi, all_items, invoked, skipped, raw_items>>
  /\ OrchFrame

\* for word in expand_words: items = self.crawl_search_page(word);
\* all_items.extend(items)
DouyinExpand(out) ==
  /\ opc = "crawler"
  /\ cpc = "expand"
  /\ safe_request(crawler_domain["douyin"], out)
  /\ c_items' = c_items \o Parsed("douyin", ResponseOf(crawler_domain["douyin"], out))
  /\ expand_left' = expand_left - 1
  /\ cpc' = IF expand_left = 1 THEN "return" ELSE "expand"
  /\ UNCHANGED <<opc, requested, nkw, visited, runs, kwi, words>>
  /\ UNCHANGED <<oi, all_items, invoked, skipped, raw_items>>
  /\ OrchFrame

\* the crawler's crawl_all returns all_items; the orchestrator extends its
\* own all_items with them and goes to the next platform
CrawlerReturn ==
  /\ opc = "crawler"
  /\ cpc = "return"
  /\ all_items' = all_items \o c_items
  /\ oi' = oi + 1
  /\ opc' = "loop"
  /\ cpc' = "none"
  /\ kwi' = 1
  /\ c_items' = <<>>
  /\ words' = 0
  /\ expand_left' = 0
  /\ UNCHANGED <<requested, nkw, visited, runs, http>>
  /\ UNCHANGED <<blocked, invoked, skipped, raw_items>>
  /\ OrchFrame

\* crawl_all after the loop: de-duplicate and return unique_items
FinishRun ==
  /\ opc = "loop"
  /\ oi > Len(requested)
  /\ raw_items' = Dedup(all_items, {})
  /\ opc' = "idle"
  /\ UNCHANGED <<requested, nkw, visited, runs, cpc, kwi, c_items, words, expand_left, http>>
  /\ UNCHANGED <<blocked, oi, all_items, invoked, skipped>>
  /\ OrchFrame

NextOrch ==
  \/ \E pl \in PlatformLists, n \in 1..MaxKeywords : StartRun(pl, n)
  \/ OrchSkip
  \/ OrchCall
  \/ \E out \in RequestOutcomes : BilibiliPopular(out)
  \/ DouyinLoop
  \/ \E out \in RequestOutcomes : DouyinSuggest(out)
  \/ \E out \in RequestOutcomes : DouyinPage(out)
  \/ \E out \in RequestOutcomes : DouyinExpand(out)
  \/ CrawlerReturn
  \/ FinishRun

vars == <<crawlVars, storeVars, cycVars, engVars, orchVars>>

Init == InitCrawl /\ InitStore /\ InitCycle /\ InitEngine /\ InitOrch

SpecCrawl == Init /\ [][NextCrawl]_vars

SpecConc == Init /\ [][NextConc]_vars

SpecStore == Init /\ [][NextStore]_vars

SpecCycle == Init /\ [][NextCycle]_vars

\* the engine before process runs, with the inputs drawn
InitProcess == InitCrawl /\ InitStore /\ InitCycle /\ InitInputs /\ InitOrch

SpecEngine == InitProcess /\ [][NextEngine]_vars

SpecOrch == Init /\ [][NextOrch]_vars

(***************************************************************************)
(* Properties of the rate limiter and of safe_request                      *)
(***************************************************************************)

\* C1 (block monotonicity, as claimed): no crawler returns a response object
\* from a safe_request to a host that is already blocked, whatever the
\* interleaving of the crawlers sharing the limiter.
C1_BlockMonotonicity ==
  [][\A c \in Crawlers :
       ~ (/\ pc[c] = "wire"
          /\ blocked[domain[c]] # "none"
          /\ pc'[c] = "idle"
          /\ ret'[c] = "resp")]_vars

\* C2 (block on 401): a call that received a 401 has returned nil at once
\* (it is not retrying) and left its host blocked; a call that began on a
\* blocked host has returned nil without sending any request.
C2_BlockOn401 ==
  \A c \in Crawlers :
    /\ call[c].lastOutcome = "401" =>
         /\ pc[c] = "idle"
         /\ ret[c] = "nil"
         /\ blocked[domain[c]] # "none"
    /\ call[c].blockedAtEntry =>
         /\ pc[c] = "idle"
         /\ ret[c] = "nil"
         /\ call[c].sent = 0

\* a host was blocked by a 401 seen by one crawler, and a later call to it
\* (here by the other crawler, which had sent requests before) was refused
C2_Witness ==
  \E c, x \in Crawlers :
    /\ c # x
    /\ call[c].lastOutcome = "401"
    /\ blocked[domain[c]] = "401"
    /\ domain[x] = domain[c]
    /\ call[x].blockedAtEntry
    /\ request_count[x] > 0

\* C3 (rate limiter fairness, as claimed): two successful requests to a host
\* at times t1 < t2 are at least base_interval * penalty_factor(host, t1) apart.
C3_FairnessAtFirst ==
  \A h \in Hosts :
    (okPair[h].any /\ okPair[h].gap > 0) =>
      okPair[h].gap * okPair[h].pen1[2] >= default_interval * okPair[h].pen1[1]

\* C3 (amended): when the wait that paced the second request had read a
\* last_request_time no older than the first request, the two are at least
\* base_interval * (the penalty factor that wait read) apart.
C3_FairnessAtWait ==
  \A h \in Hosts :
    (okPair[h].any /\ okPair[h].seen2) =>
      okPair[h].gap * okPair[h].waitPen2[2] >= default_interval * okPair[h].waitPen2[1]

\* two successful requests to a host, the second paced by a wait that read a
\* penalty factor above 1
C3_Witness ==
  \E h \in Hosts :
    /\ okPair[h].any
    /\ okPair[h].seen2
    /\ okPair[h].waitPen2 # One
    /\ okPair[h].gap > 0

(***************************************************************************)
(* Properties of the TimeSeriesStore                                       *)
(***************************************************************************)

MaxCount(ws) ==
  CHOOSE m \in {ws[j].count : j \in 1..Len(ws)} : \A j \in 1..Len(ws) : ws[j].count <= m

\* C4 (window cap): whatever record calls were made, every keyword holds at
\* most HISTORY_WINDOWS windows, and they are the most recent ones recorded
\* for it, in the order they were recorded.
C4_WindowCap ==
  \A i \in 1..Len(data) :
    LET ws == data[i].windows
        h == hist[data[i].key]
    IN /\ Len(ws) <= HISTORY_WINDOWS
       /\ Len(ws) = Min(Len(h), HISTORY_WINDOWS)
       /\ \A j \in 1..Len(ws) : ws[j] = h[Len(h) - Len(ws) + j]

\* a keyword has been recorded more often than the cap, and the window that
\* was dropped differs from the newest one
C4_Witness ==
  \E i \in 1..Len(data) :
    LET h == hist[data[i].key]
    IN /\ Len(h) > HISTORY_WINDOWS
       /\ h[1] # h[Len(h)]
       /\ Len(data[i].windows) = HISTORY_WINDOWS

\* the stored windows of entry e carry its peak
PeakAmongStored(e) ==
  /\ e.peak_count = MaxCount(e.windows)
  /\ \E j \in 1..Len(e.windows) :
       e.windows[j].time = e.peak_time /\ e.windows[j].count = e.peak_count

\* C5 (peak consistency, as claimed): once a keyword has been recorded, its
\* peak_count is the largest count among the windows stored for it and one of
\* the stored windows has the peak's time and count, also after eviction.
C5_PeakAmongStored ==
  \A i \in 1..Len(data) : data[i].windows # <<>> => PeakAmongStored(data[i])

\* C5 (peak consistency, amended): peak_count is the largest count among all
\* the windows recorded for the keyword since its entry was created, evicted
\* ones included, and peak_time is the time of the first of them that reached
\* it; the stored windows carry the peak as long as that window is stored.
C5_PeakOverRecorded ==
  \A i \in 1..Len(data) :
    LET e == data[i]
        h == hist[e.key]
    IN /\ h # <<>>
       /\ e.peak_count = MaxCount(h)
       /\ \E j \in 1..Len(h) :
            /\ h[j].count = e.peak_count
            /\ h[j].time = e.peak_time
            /\ \A m \in 1..(j - 1) : h[m].count < e.peak_count
            /\ (j > Len(h) - Len(e.windows)) => PeakAmongStored(e)

\* the window that set the peak has been evicted, and the stored ones stay
\* below it
C5_Witness ==
  \E i \in 1..Len(data) :
    /\ Len(hist[data[i].key]) > HISTORY_WINDOWS
    /\ data[i].peak_count > MaxCount(data[i].windows)

\* C7 (atomic persistence, as claimed): at every point the history file, if
\* it exists, is a complete document holding either the previously saved
\* state or the state being saved.
C7_AtomicPersistence ==
  file.exists =>
    /\ file.closed
    /\ \/ DictEq(Decode(file.text), saved.data)
       \/ DictEq(Decode(file.text), data)

C6_PurgedAfterCycle ==
  (dpc = "idle" /\ lastKind = "full") =>
    \A i \in 1..Len(Load(file)) : ~ Expired(Load(file)[i], doneAt)

\* C9 (crawler failure isolation): an exception of a platform crawler never
\* ends crawl_all; every platform the loop has passed was either called or
\* skipped because its host is blocked; the items the other crawlers returned
\* stay collected and reach the returned list (up to de-duplication).
C9_FailureIsolation ==
  /\ dpc # "aborted"
  /\ \A p \in skipped : is_blocked(platform_domains[p])
  /\ dpc = "crawl" =>
       /\ \A j \in 1..(oi - 1) : Platforms[j] \in invoked \cup skipped
       /\ \A it \in got : \E j \in 1..Len(all_items) : all_items[j] = it
  /\ dpc = "seed" =>
       /\ \A j \in 1..Len(Platforms) : Platforms[j] \in invoked \cup skipped
       /\ \A it \in got : \E j \in 1..Len(raw_items) : raw_items[j].title = it.title

\* crawl_all has returned after the first platform's crawler raised and the
\* second one was called and brought items
C9_Witness ==
  /\ dpc = "seed"
  /\ Platforms[1] \in raisedIn
  /\ Platforms[2] \in invoked \ raisedIn
  /\ raw_items # <<>>
  /\ \A j \in 1..Len(raw_items) : raw_items[j].platform = Platforms[2]

\* C10 (empty cycle): a cycle whose raw item list is empty returns the empty
\* trend list and leaves the store, the history file and trends.json as they
\* were when it started.
C10_EmptyCycle ==
  (dpc = "idle" /\ lastKind = "empty") =>
    /\ result = <<>>
    /\ data = before.data
    /\ file = before.file
    /\ trendsFile = before.trendsFile

\* an empty cycle has run after a cycle that wrote trends and history
C10_Witness ==
  /\ dpc = "idle" /\ lastKind = "empty"
  /\ cycles = 2
  /\ file.exists /\ file.text # <<>>
  /\ trendsFile.exists /\ trendsFile.trends # <<>>

(***************************************************************************)
(* Status-code policy of safe_request (SpecCrawl)                          *)
(***************************************************************************)

\* the step in which crawler c receives outcome o for its request in flight
Answered(c, o) ==
  /\ pc[c] = "wire"
  /\ pc'[c] # "wire"
  /\ call'[c].lastOutcome = o

\* C18 (403 with Retry-After is temporary throttling): a 403 response that
\* carries a (non-negative) Retry-After never blocks the host, on any attempt
\* of the call, and is followed by a sleep of min(Retry-After, 30) seconds.
C18_RetryAfterNeverBlocks ==
  [][\A c \in Crawlers :
       (Answered(c, "403ra") /\ call'[c].retryAfter >= 0) =>
         /\ blocked' = blocked
         /\ pc'[c] = "backoff"
         /\ wake'[c] = 2 * Min(call'[c].retryAfter, retry_after_cap)]_vars

\* C19 (403 without Retry-After): the host's first such failure is followed
\* by a sleep of 2-4 s and leaves the host unblocked; a second or later one
\* blocks the host as forbidden and the call returns nil; a host that has
\* answered nothing but such 403s is blocked after exactly two requests.
C19_SecondForbiddenBlocks ==
  /\ [][\A c \in Crawlers :
          Answered(c, "403") =>
            IF n403[domain[c]] = 0
              THEN /\ blocked'[domain[c]] = "none"
                   /\ pc'[c] = "backoff"
                   /\ wake'[c] \in 4..8
              ELSE /\ blocked'[domain[c]] = "403"
                   /\ pc'[c] = "idle"
                   /\ ret'[c] = "nil"]_vars
  /\ [](\A h \in Hosts :
          Requests = n403[h] =>
            /\ n403[h] <= 2
            /\ blocked[h] = "403" <=> n403[h] = 2)

\* current * 3.0, capped at 5.0
TimesThreeCapped(p) == IF 3 * p[1] >= 5 * p[2] THEN <<5, 1>> ELSE <<3 * p[1], p[2]>>

\* C20 (412 policy, as claimed): every 412 response multiplies the host's
\* penalty factor by 3, capped at 5; a second or later failure blocks the
\* host for risk control and the call returns nil, otherwise the call sleeps.
C20_Every412Penalizes ==
  [][\A c \in Crawlers :
       Answered(c, "412") =>
         /\ penalties'[domain[c]] = TimesThreeCapped(penalties[domain[c]])
         /\ IF fail_count'[domain[c]] >= 2
              THEN /\ blocked'[domain[c]] = "412"
                   /\ pc'[c] = "idle"
                   /\ ret'[c] = "nil"
              ELSE /\ blocked' = blocked
                   /\ pc'[c] = "backoff"
                   /\ wake'[c] \in 10..20]_vars

\* C20 (412 policy, as the code has it): a 412 that is the host's first
\* failure since its last success multiplies the penalty factor by 3, capped
\* at 5, leaves the host unblocked and sleeps 5-10 s before the next attempt
\* (or the final return of nil); a 412 that is the second or later failure
\* blocks the host for risk control, returns nil at once and leaves the
\* penalty factor as it was.
C20_First412Penalizes ==
  [][\A c \in Crawlers :
       Answered(c, "412") =>
         IF fail_count'[domain[c]] >= 2
           THEN /\ penalties' = penalties
                /\ blocked'[domain[c]] = "412"
                /\ pc'[c] = "idle"
                /\ ret'[c] = "nil"
           ELSE /\ penalties'[domain[c]] = TimesThreeCapped(penalties[domain[c]])
                /\ blocked' = blocked
                /\ pc'[c] = "backoff"
                /\ wake'[c] \in 10..20]_vars

\* a 429 doubled a host's penalty, a first 412 then took it to the cap, and a
\* second 412 blocked the host and left the penalty at the cap
C20_Witness ==
  \E c \in Crawlers :
    /\ call[c].lastOutcome = "412"
    /\ call[c].sent = 3
    /\ pc[c] = "idle"
    /\ ret[c] = "nil"
    /\ blocked[domain[c]] = "412"
    /\ fail_count[domain[c]] = 2
    /\ penalties[domain[c]] = <<max_penalty, 1>>

(***************************************************************************)
(* Detectors (SpecEngine)                                                  *)
(***************************************************************************)

\* the z-scores a[1]/sqrt(a[2]) and b[1]/sqrt(b[2]) are the same number
SameZ(a, b) ==
  /\ (a[1] > 0) = (b[1] > 0)
  /\ (a[1] < 0) = (b[1] < 0)
  /\ a[1] * a[1] * b[2] = b[1] * b[1] * a[2]

\* n * current - S and n*n * variance for the series cs, n = Len(cs) - 1
Deviation(cs) == (Len(cs) - 1) * cs[Len(cs)] - Sum(SubSeq(cs, 1, Len(cs) - 1))

ScaledVariance(cs) ==
  (Len(cs) - 1) * SumSq(SubSeq(cs, 1, Len(cs) - 1))
    - Sum(SubSeq(cs, 1, Len(cs) - 1)) * Sum(SubSeq(cs, 1, Len(cs) - 1))

\* the two series of the burst scenario give the results the scenario names
BurstScenario ==
  /\ counts = burst_counts => detect.is_burst
  /\ counts = SubSeq(burst_counts, 1, Len(burst_counts) - 1) => ~ detect.is_burst

\* C16 (z-score burst test, as claimed): for fewer than 3 counts the result is
\* (0, false); otherwise z = (x[n-1] - mu) / max(sigma, 1) over the mean and
\* population standard deviation of the earlier counts, and is_burst iff
\* z > 2.5; the scenario series is a burst, and is not without its final 25.
C16_ZScoreMaxSigma ==
  detect.run =>
    /\ Len(counts) < 3 => (detect.z[1] = 0 /\ ~ detect.is_burst)
    /\ Len(counts) >= 3 =>
         /\ SameZ(detect.z, <<Deviation(counts),
                              Max(ScaledVariance(counts), (Len(counts) - 1) * (Len(counts) - 1))>>)
         /\ detect.is_burst <=> AboveThreshold(detect.z)
    /\ BurstScenario

\* C16 (z-score burst test, as the code has it): for fewer than 3 counts the
\* result is (0, false); otherwise z = (x[n-1] - mu) / sigma, where sigma is
\* replaced by 1 only when it is 0, and is_burst iff z > 2.5; the scenario
\* series is a burst, and is not without its final 25.
C16_ZScoreSigma ==
  detect.run =>
    /\ Len(counts) < 3 => (detect.z[1] = 0 /\ ~ detect.is_burst)
    /\ Len(counts) >= 3 =>
         /\ SameZ(detect.z, <<Deviation(counts),
                              IF ScaledVariance(counts) > 0 THEN ScaledVariance(counts)
                              ELSE (Len(counts) - 1) * (Len(counts) - 1)>>)
         /\ detect.is_burst <=>
              /\ detect.z[1] > 0
              /\ 4 * detect.z[1] * detect.z[1] > 25 * detect.z[2]
    /\ BurstScenario

\* a series whose earlier counts have a standard deviation between 0 and 1
\* was tested and found to be a burst that dividing by 1 would not give
C16_Witness ==
  /\ detect.run
  /\ Len(counts) >= 3
  /\ ScaledVariance(counts) > 0
  /\ ScaledVariance(counts) < (Len(counts) - 1) * (Len(counts) - 1)
  /\ detect.is_burst
  /\ 2 * Deviation(counts) <= 5 * (Len(counts) - 1)

\* C17 (direction scenario, as claimed): [10, 16] gives the slow rise,
\* [10, 30] the fast rise, [10, 10] flat, [20, 5] the fast fall, and fewer than
\* two counts give flat.
C17_DirectionScenario ==
  direction # "none" =>
    /\ counts = <<10, 16>> => direction = "slight_up"
    /\ counts = <<10, 30>> => direction = "up"
    /\ counts = <<10, 10>> => direction = "flat"
    /\ counts = <<20, 5>> => direction = "down"
    /\ Len(counts) < 2 => direction = "flat"

\* C17 (direction scenario, as the code has it): [10, 16] is a change of +60 %
\* and gives the fast rise like [10, 30]; [10, 14] gives the slow rise,
\* [10, 10] flat, [10, 8] the slow fall, [20, 5] the fast fall, and fewer than
\* two counts give flat.
C17_DirectionByRate ==
  direction # "none" =>
    /\ counts = <<10, 16>> => direction = "up"
    /\ counts = <<10, 30>> => direction = "up"
    /\ counts = <<10, 14>> => direction = "slight_up"
    /\ counts = <<10, 10>> => direction = "flat"
    /\ counts = <<10, 8>> => direction = "slight_down"
    /\ counts = <<20, 5>> => direction = "down"
    /\ Len(counts) < 2 => direction = "flat"

\* the direction of [10, 16] was computed
C17_Witness ==
  /\ counts = <<10, 16>>
  /\ direction = "up"

(***************************************************************************)
(* De-duplication of crawl_all (SpecEngine)                                *)
(***************************************************************************)

\* lowercase(first 30 characters of the title, with spaces removed)
KeyOf(it) ==
  LET txt == TitleText[it.title]
      first30 == SubSeq(txt, 1, Min(30, Len(txt)))
      lowered == [i \in 1..Len(first30) |-> IF first30[i] = "A" THEN "a" ELSE first30[i]]
  IN SelectSeq(lowered, LAMBDA c : c # " ")

\* the positions of all_items that hold the first item of their key
Firsts(items) ==
  {i \in 1..Len(items) : \A j \in 1..(i - 1) : KeyOf(items[j]) # KeyOf(items[i])}

\* the n-th of these positions
NthFirst(items, n) ==
  CHOOSE i \in Firsts(items) : Cardinality({j \in Firsts(items) : j <= i}) = n

\* C15 (de-duplication within a cycle): the returned list holds no two items
\* with the same key; for each key the first collected item is the one kept,
\* and the kept items are in collection order.
C15_Dedup ==
  unique_items.run =>
    /\ \A a, b \in 1..Len(unique_items.items) :
         a # b => KeyOf(unique_items.items[a]) # KeyOf(unique_items.items[b])
    /\ Len(unique_items.items) = Cardinality(Firsts(collected))
    /\ \A n \in 1..Len(unique_items.items) :
         unique_items.items[n] = collected[NthFirst(collected, n)]

\* three items were collected: the second agrees with the first up to case and
\* spaces and was dropped, the third differs from the first only in the platform
\* and was dropped too
C15_Witness ==
  /\ unique_items.run
  /\ Len(collected) = 3
  /\ collected[1].title = "t1"
  /\ collected[2].title = "t4"
  /\ collected[3].title = "t1"
  /\ collected[3].platform # collected[1].platform
  /\ unique_items.items = <<collected[1]>>

(***************************************************************************)
(* Scoring (SpecEngine)                                                    *)
(***************************************************************************)

\* the topics of the runs made so far
TopicsWritten ==
  UNION {{trends_json[seed].trends[i] : i \in 1..Len(trends_json[seed].trends)} :
           seed \in {x \in HashSeeds : trends_json[x].run}}

\* C11 (score bounds): every TrendTopic a cycle produces has an engagement
\* within [0, 1] and a heat score within [0, 100], whatever the engagement of
\* the items, the stored history and the burst and MACD multipliers.
C11_ScoreBounds ==
  \A t \in TopicsWritten :
    /\ 0 <= t.engagement
    /\ t.engagement <= 10000
    /\ 0 <= t.heat_score
    /\ t.heat_score <= 1000000

\* a topic that is a burst with a bullish MACD was scored at the cap of 100,
\* next to a topic scored with zero engagement everywhere
C11_Witness ==
  \E seed \in HashSeeds :
    /\ trends_json[seed].run
    /\ Len(trends_json[seed].trends) = 2
    /\ trends_json[seed].trends[1].is_burst
    /\ trends_json[seed].trends[1].macd_signal = "bullish"
    /\ trends_json[seed].trends[1].heat_score = 1000000
    /\ trends_json[seed].trends[2].engagement = 0
    /\ \A k \in Keywords : keyword_data[k].engagement = 0

\* C12 (deterministic scoring): two runs on the same raw items, the same
\* history and a frozen clock write the same trends.json, the order of the
\* trends and of each topic's platforms included.
C12_Deterministic ==
  \A a, b \in HashSeeds :
    (trends_json[a].run /\ trends_json[b].run) => trends_json[a] = trends_json[b]

(***************************************************************************)
(* Corrupt history file (SpecStore)                                        *)
(***************************************************************************)

\* C13 (time-series file corruption): when the history file exists and cannot
\* be decoded, constructing the store does not raise and the store starts
\* empty, and the next save replaces the file with the store's state.
C13_CorruptFileTolerated ==
  /\ spc # "raised"
  /\ (loaded /\ file.exists /\ ~ file.closed) => data = <<>>
  /\ (saved.any /\ ~ saved.torn) =>
       (file.closed /\ ~ file.midchar /\ DictEq(Decode(file.text), saved.data))

(***************************************************************************)
(* Write errors (SpecCycle)                                                *)
(***************************************************************************)

\* C14 (save failure is non-fatal): a write error while saving the history
\* file or trends.json is logged and skipped: no cycle ends by the exception
\* of a write, every cycle that analysed something returned its trends.
C14_SaveFailureSkipped ==
  dpc = "idle" => lastKind \notin {"raised_history", "raised_trends"}

(***************************************************************************)
(* Retries and penalties of safe_request (SpecCrawl)                       *)
(***************************************************************************)

\* how far crawler c is from the end of its call: every step of the call
\* brings it closer
Rank(c) ==
  IF pc[c] = "idle" THEN 0
  ELSE 4 * (max_retries - attempt[c])
         - (CASE pc[c] = "loop" -> 0 [] pc[c] = "wait" -> 1
              [] pc[c] = "wire" -> 2 [] pc[c] = "backoff" -> 3)

\* C21 (bounded retries): whatever the outcomes, one call to safe_request
\* sends at most max_retries requests and terminates (each of its steps brings
\* it closer to its end), returning the response when a request was answered
\* with a 2xx and nil otherwise; a 429 or a transport error does not block the
\* host.
C21_BoundedRetries ==
  /\ [](\A c \in Crawlers :
          call[c].sent <= max_retries /\ attempt[c] < max_retries /\ Rank(c) >= 0)
  /\ [][\A c \in Crawlers :
          (pc[c] # "idle" /\ (pc'[c] # pc[c] \/ attempt'[c] # attempt[c])) =>
            Rank(c)' < Rank(c)]_vars
  /\ [][\A c \in Crawlers :
          (pc[c] # "idle" /\ pc'[c] = "idle") =>
            /\ ret'[c] \in {"resp", "nil"}
            /\ ret'[c] = "resp" <=> Answered(c, "200")]_vars
  /\ [][\A c \in Crawlers :
          (Answered(c, "429") \/ Answered(c, "err")) => blocked' = blocked]_vars

\* a call that was throttled three times: it sent max_retries requests and
\* returned nil, and its host is not blocked
C21_Witness ==
  \E c \in Crawlers :
    /\ pc[c] = "idle"
    /\ call[c].sent = max_retries
    /\ call[c].lastOutcome = "429"
    /\ ret[c] = "nil"
    /\ blocked[domain[c]] = "none"

\* the fraction q is min(p * f, 5)
IsTimesCapped(q, p, f) ==
  IF f * p[1] >= 5 * p[2] THEN q[1] = 5 * q[2] ELSE q[1] * p[2] = f * p[1] * q[2]

\* the fraction q is max(1, p / 2)
IsHalfFloored(q, p) ==
  IF p[1] <= 2 * p[2] THEN q[1] = q[2] ELSE 2 * q[1] * p[2] = p[1] * q[2]

\* C22 (penalty range): the penalty factor of every host stays within [1, 5];
\* it changes only by penalize, which sets it to min(current * f, 5) with f = 2
\* (on a 429) or f = 3 (on a 412), and by a clean success, which sets it to
\* max(1, current * 0.5) and resets the host's failure counter to 0.
C22_PenaltyRange ==
  /\ [](\A h \in Hosts :
          penalties[h][2] > 0 /\ penalties[h][2] <= penalties[h][1]
             /\ penalties[h][1] <= 5 * penalties[h][2])
  /\ [][\A c \in Crawlers :
          LET h == domain[c] IN
          /\ Answered(c, "429") => IsTimesCapped(penalties'[h], penalties[h], 2)
          /\ Answered(c, "200") =>
               /\ IsHalfFloored(penalties'[h], penalties[h])
               /\ fail_count'[h] = 0]_vars
  /\ [][\A h \in Hosts :
          penalties'[h] # penalties[h] =>
            \E c \in Crawlers :
              /\ domain[c] = h
              /\ \/ Answered(c, "429")
                 \/ Answered(c, "200")
                 \/ Answered(c, "412") /\ IsTimesCapped(penalties'[h], penalties[h], 3)]_vars

\* a host was penalized up to the cap and a clean success then halved its
\* factor to 2.5 and reset its failure counter
C22_Witness ==
  \E h \in Hosts :
    /\ penalties[h] = <<5, 2>>
    /\ lastOk[h].any
    /\ fail_count[h] = 0

(***************************************************************************)
(* The orchestrator and its crawlers (SpecOrch)                            *)
(***************************************************************************)

\* C23 (blocked platforms are skipped in order): crawl_all passes the
\* requested platforms in the order given; it calls a crawler only when the
\* platform's host is not blocked at its turn and skips it only when it is; no
\* HTTP request is sent to a host that is blocked; and from the moment its
\* host is blocked a crawler adds nothing to its items and returns them as
\* they were.
C23_SkipBlockedInOrder ==
  /\ [](/\ Len(visited) <= Len(requested)
        /\ \A j \in 1..Len(visited) : visited[j] = requested[j]
        /\ opc = "loop" => oi = Len(visited) + 1
        /\ invoked \cup skipped = {visited[j] : j \in 1..Len(visited)})
  /\ [][/\ \A p \in invoked' \ invoked :
             p = requested[oi] /\ blocked[crawler_domain[p]] = "none"
        /\ \A p \in skipped' \ skipped :
             p = requested[oi] /\ blocked[crawler_domain[p]] # "none"]_vars
  /\ [][\A h \in Hosts : http'[h] > http[h] => blocked[h] = "none"]_vars
  /\ [][(opc = "crawler" /\ blocked'[crawler_domain[requested[oi]]] # "none") =>
          IF opc' = "crawler"
            THEN c_items' = c_items
            ELSE all_items' = all_items \o c_items]_vars

\* bilibili was blocked in an earlier crawl_all and is skipped in this one;
\* douyin, after it, was called, collected an item, had its host blocked
\* and returned that item
C23_Witness ==
  /\ runs = 2
  /\ opc = "loop"
  /\ visited = <<"bilibili", "douyin">>
  /\ skipped = {"bilibili"}
  /\ invoked = {"douyin"}
  /\ blocked[crawler_domain["douyin"]] # "none"
  /\ all_items = <<Item("douyin", "t1")>>
  /\ http[crawler_domain["bilibili"]] = 0

(***************************************************************************)
(* The limiter under concurrent crawlers (SpecConc)                        *)
(***************************************************************************)

\* C24 (rate limiter updates are atomic): with crawlers sharing the limiter
\* concurrently, every recorded failure adds one to the host's counter as it
\* stands and a clean success resets it, and a wait proceeds (stamps
\* last_request_time and lets its request go) only on the last_request_time it
\* read: no other wait for the host has proceeded in between, so two waits
\* never both proceed on the same last_request_time.
C24_AtomicLimiter ==
  /\ [][\A c \in Crawlers, o \in Outcomes :
          Answered(c, o) =>
            fail_count'[domain[c]] =
              IF o = "200" THEN 0
              ELSE IF o \in {"401", "403", "403ra", "412"} THEN fail_count[domain[c]] + 1
              ELSE fail_count[domain[c]]]_vars
  /\ [][\A c \in Crawlers :
          (pc[c] = "wait" /\ pc'[c] = "wire") =>
            last_request[domain[c]] = call[c].waitLast]_vars

(***************************************************************************)
(* Seed keywords (SpecEngine)                                              *)
(***************************************************************************)

\* the words of the list l that are in the domain cat of the bank
OfDomain(l, cat) ==
  {l[i] : i \in 1..Len(l)} \cap {SEED_KEYWORDS[cat][j] : j \in 1..Len(SEED_KEYWORDS[cat])}

FromBank(l) ==
  \A i \in 1..Len(l) : \E c \in 1..Len(categories) : OfDomain(<<l[i]>>, categories[c]) # {}

\* the sum over the domains of min(max(2, count // domains), size of the domain)
RECURSIVE SampledTotal(_, _)
SampledTotal(n, c) ==
  IF c = 0 THEN 0
  ELSE SampledTotal(n, c - 1)
         + Min(IF n \div Len(categories) > 2 THEN n \div Len(categories) ELSE 2,
               Len(SEED_KEYWORDS[categories[c]]))

CycleRaw == raw_items \o load_news_as_raw(newsFile)

\* the step in which process runs and the store is saved
IsSavingCycle == dpc = "seed" /\ lastKind' \in {"full", "raised_trends"}

\* C26: one engine cycle appends at most one window to the history of each
\* keyword: exactly one for a keyword that two or more items mention, none
\* for a keyword that no item mentions; an appended window carries a count
\* of at least 2 and the time of the cycle, the same for all; the keywords
\* that got a window are the ones the cycle has statistics (and trends) for;
\* what is stored is the newest HISTORY_WINDOWS of the windows
C26_OneWindowPerCycle ==
  [][IsSavingCycle =>
       \A k \in Keywords :
         LET old == LoadedHist(file)[k]
             new == saved'.hist[k]
             grew == Len(new) = Len(old) + 1
         IN /\ Len(new) \in {Len(old), Len(old) + 1}
            /\ SubSeq(new, 1, Len(old)) = old
            /\ grew => (new[Len(new)].time = clock /\ new[Len(new)].count >= 2)
            /\ Mentions(CycleRaw, k) >= 2 => grew
            /\ Mentions(CycleRaw, k) = 0 => ~ grew
            /\ lastKind' = "full" =>
                 (grew <=> \E j \in 1..Len(result') : result'[j] = k)
            /\ grew => /\ k \in Keys(saved'.data)
                       /\ saved'.data[IndexOf(saved'.data, k)].windows
                            = LastN(new, HISTORY_WINDOWS)]_vars

\* a second cycle has added a second window for k1 and none for k2
C26_Witness ==
  /\ lastKind = "full"
  /\ cycles = 2
  /\ Len(saved.hist["k1"]) >= 2
  /\ saved.hist["k2"] = <<>>

\* ---- C27 ----

\* C27: in every state of the store the windows of each keyword are strictly
\* increasing in time from the oldest to the newest, whatever record calls
\* were made, with or without a window_time of the caller
C27_WindowTimeOrder ==
  \A i \in 1..Len(data) :
    \A j \in 1..(Len(data[i].windows) - 1) :
      data[i].windows[j].time < data[i].windows[j + 1].time

\* ---- C28 ----

FirstSeenOf(d, k) == d[IndexOf(d, k)].first_seen

\* C28: record on a keyword that has an entry leaves its first_seen as it
\* is, and no record, cleanup, save or reload takes the first_seen of a
\* keyword below the value it had
C28_FirstSeenStable ==
  [][\A k \in Keywords :
       (k \in Keys(data) /\ k \in Keys(data')) =>
         /\ FirstSeenOf(data', k) >= FirstSeenOf(data, k)
         /\ nrec' = nrec + 1 => FirstSeenOf(data', k) = FirstSeenOf(data, k)]_vars

\* ---- C29 ----

\* C29: the heat_score of every TrendTopic is the heat after the burst and
\* bullish multipliers and the clamp to 100, rounded to two decimals: every
\* heat_score is a multiple of 0.01
C29_FinalHeatRounded ==
  \A t \in TopicsWritten : t.heat_score % (Scale \div 100) = 0

\* ---- C30 ----

IsRun(seed) == ~ trends_json[seed].run /\ trends_json'[seed].run

RegularOf(items) == SelectSeq(items, LAMBDA n : ~ n.is_discovered_trend)

DiscoveredOf(items) == SelectSeq(items, LAMBDA n : n.is_discovered_trend)

====
